---- MODULE Spec2Model ----
(***************************************************************************)
(* Agronomic Insight Engine of oracle-orchard-sync.                        *)
(*                                                                         *)
(* Every script of the repository is a stateless single-pass batch: one    *)
(* invocation reads plain records and returns plain records.  Each         *)
(* component is therefore modelled as an action that draws one input from  *)
(* a bounded set and leaves the component's result in the variables; each  *)
(* component has its own specification (SpecRules, SpecManifest, ...)      *)
(* over the shared Init.  An invocation starts from the state of a fresh   *)
(* process and ends in the state that holds its result.  Two components    *)
(* keep state between invocations and are modelled over sequences of runs: *)
(* the add and sync scripts (the activity_logs table and the Markdown      *)
(* files) and the ProfileManager singleton (its cache and lastFetch).      *)
(*                                                                         *)
(* Numbers: JavaScript doubles are modelled in fixed point.  Temperatures, *)
(* humidity, rain and radiation are integers; vpd, gdd and eto are in      *)
(* hundredths (the code rounds them to 2 decimals).  A double that may be  *)
(* NaN is a record [nan |-> BOOLEAN, v |-> Int].                           *)
(* Strings that the code searches (includes, trim, toLowerCase) are        *)
(* sequences of one-character strings; Thai letters are written by name.   *)
(***************************************************************************)
EXTENDS Integers, Sequences, FiniteSets, TLC

VARIABLES
    \* ---- rule evaluator: one iteration of runSynthesis' loop (part_001:42-64)
    engine,         \* which conditions module ran: "none" | "phase1" | "phase2"
    forecast,       \* the DailyForecast row analysed
    context,        \* the PlotProfile passed as context, or NoContext
    irrigation,     \* result of analyzeIrrigation: <<>> (null) or <<insight>>
    disease,        \* result of analyzeDisease
    physio,         \* result of analyzePhysiology
    pest,           \* result of analyzePest
    \* ---- manifest generator (src/src/lib/manifest-generator.ts)
    call,           \* which function of the module was called: "none" |
                    \* "generateManifest" | "generatePlotComponents"
    data,           \* Object.values(data.plots): the SITREPs in plot order
    filterPlotId,   \* generateManifest's filterPlotId, "" when not given
    analysis,       \* the GlobalAnalysis computed by analyzeGlobalContext
    manifest,       \* the HeadlessManifest returned by generateManifest
    sitrep,         \* generatePlotComponents: its sitrep argument
    globalMode,     \* generatePlotComponents: its globalMode argument
    localMode,      \* generatePlotComponents: the final value of localMode
    plotComponents, \* generatePlotComponents: the components returned
    now,            \* the wall clock `new Date()` reads, in instants since the
                    \* first call
    manifestAgain,  \* the HeadlessManifest a second call on the same input returned
    \* ---- formula library (src/src/lib/agronomy.ts)
    formula,        \* which function was called: "none" | "calculateGDD" |
                    \* "calculateVPD" | "calculateHargreavesETo"
    args,           \* its arguments
    returned,       \* what the call did: [threw |-> BOOLEAN, value |-> number]
    \* ---- plot resolution (plot-mapper.ts resolvePlotProfile, part_014 resolvePlotId)
    resolver,       \* which function was called: "none" | "resolvePlotProfile" | "resolvePlotId"
    inputName,      \* its argument, a string as a sequence of characters
    resolvedProfile,\* resolvePlotProfile: the PlotProfile returned
    matchedBy,      \* resolvePlotProfile: the return statement reached (1, 2 or 3)
    resolvedPlotId, \* resolvePlotId: the id returned, <<>> for null
    warnings,       \* number of console.warn calls made
    \* ---- report pipeline (part_014 loadSystemContext, synthesize-insights.ts and
    \*      part_001 runSynthesis)
    pipeline,       \* which entry point ran: "none" | "loadSystemContext" |
                    \* "synthesizeInsights" | "runSynthesis"
    forecastsRaw,   \* rows the weather_forecasts query returned, in its order
    weatherError,   \* whether that query returned an error
    requestedPlots, \* options.requestedPlots / --plot
    activityLogs,   \* rows of activity_logs, newest first
    pendingLogs,    \* rows of the pending-task query
    profileTable,   \* what ProfileManager.getAllProfiles returns
    forecastsUsed,  \* the de-duplicated forecasts: forecastsByLocation / uniqueMap
    outcome,        \* [threw |-> BOOLEAN, report |-> the report returned or printed]
    insights,       \* part_001 runSynthesis: the insights collected
    \* ---- command-line scripts (part_003 add, src/src/scripts/sync.ts)
    script,         \* what ran last: "none" | "add" | "sync" | "dashboard"
    values,         \* the add command's parsed arguments
    exitCode,       \* the exit code of the last script
    activityTable,  \* the rows of activity_logs in the database, by id
    nextLogId,      \* the id the next inserted row gets
    farmingLogs,    \* the Markdown files of FARMING_LOGS_DIR, by filename
    \* ---- profile cache (part_013 ProfileManager)
    cache,          \* this.cache: the profile table last loaded, {} at first
    lastFetch,      \* this.lastFetch
    clock,          \* what Date.now() returns
    lastCall,       \* the last call of getAllProfiles: its argument, its now,
                    \* whether it queried, the query's answer, the table returned
    latestLoad      \* when the latest query that answered with rows was started,
                    \* 0 before any

rulesVars == <<engine, forecast, context, irrigation, disease, physio, pest>>
manifestVars == <<call, data, filterPlotId, analysis, manifest, sitrep, globalMode,
                  localMode, plotComponents, now, manifestAgain>>
agronomyVars == <<formula, args, returned>>
resolverVars == <<resolver, inputName, resolvedProfile, matchedBy, resolvedPlotId, warnings>>
pipelineVars ==
    <<pipeline, forecastsRaw, weatherError, requestedPlots, activityLogs, pendingLogs,
      profileTable, forecastsUsed, outcome, insights>>
scriptsVars == <<script, values, exitCode, activityTable, nextLogId, farmingLogs>>
profilesVars == <<cache, lastFetch, clock, lastCall, latestLoad>>
vars == <<rulesVars, manifestVars, agronomyVars, resolverVars, pipelineVars, scriptsVars,
          profilesVars>>

\* what an invocation of one component leaves alone: the other components
outsideRules == <<manifestVars, agronomyVars, resolverVars, pipelineVars, scriptsVars,
    profilesVars>>
outsideManifest == <<rulesVars, agronomyVars, resolverVars, pipelineVars, scriptsVars,
    profilesVars>>
outsideAgronomy == <<rulesVars, manifestVars, resolverVars, pipelineVars, scriptsVars,
    profilesVars>>
outsideResolver == <<rulesVars, manifestVars, agronomyVars, pipelineVars, scriptsVars,
    profilesVars>>
outsidePipeline == <<rulesVars, manifestVars, agronomyVars, resolverVars, scriptsVars,
    profilesVars>>
outsideScripts == <<rulesVars, manifestVars, agronomyVars, resolverVars, pipelineVars,
    profilesVars>>
outsideProfiles == <<rulesVars, manifestVars, agronomyVars, resolverVars, pipelineVars,
    scriptsVars>>

------------------------------------------------------------------------------
(* Plot profiles: src/src/lib/plot-mapper.ts                                 *)

GrowthStage == {"preparing_leaf", "induction", "bloom", "fruit_set", "harvest", "seedling"}
SoilType == {"sandy", "loamy", "loamy_sandy", "clayey", "clayey_filled"}

\* `context?: PlotProfile` left out by the caller (undefined)
NoContext == [absent |-> TRUE]

HasContext(c) == "stage" \in DOMAIN c

\* A JavaScript number that may be NaN; v is in hundredths for vpd, gdd, eto.
Num(v) == [nan |-> FALSE, v |-> v]
NaN == [nan |-> TRUE, v |-> 0]

\* x || 0 on a number: NaN and 0 both give 0
OrZero(x) == IF x.nan THEN 0 ELSE x.v

\* n / d rounded to the nearest integer, halves away from zero (d > 0)
RoundDiv(n, d) ==
    IF n >= 0 THEN (2 * n + d) \div (2 * d) ELSE -((2 * (-n) + d) \div (2 * d))

\* context?.soil and context?.stage: "undefined" when no context is given
OptSoil(c) == IF HasContext(c) THEN c.soil ELSE "undefined"
OptStage(c) == IF HasContext(c) THEN c.stage ELSE "undefined"

------------------------------------------------------------------------------
(* Rule evaluator, context-aware (Phase 2): src/unnamed/part_012             *)
(* An analyzer returns `WeatherInsight | null`: <<>> is null, <<i>> is i.    *)

Insight(day, category, status, message, trigger) ==
    [location_id  |-> day.location_id,
     target_date  |-> day.forecast_date,
     category     |-> category,
     status_level |-> status,
     message      |-> message,
     trigger_data |-> trigger]

\* Mutant: the heat-stress condition is tried before the low-humidity one.
analyzeIrrigationHeatFirst(day, ctx) ==
    LET rh == day.rh_percent
        temp == day.tc_max
        swdown == day.swdown
        isSandy == OptSoil(ctx) = "sandy"
        rhThreshold == IF isSandy THEN 60 ELSE 50
        isBloom == OptStage(ctx) = "bloom"
    IN  IF temp > 35 /\ swdown > 600
        THEN <<Insight(day, "irrigation",
                       IF isBloom THEN "critical" ELSE "warning",
                       IF isBloom THEN "cooling-water/bloom" ELSE "cooling-water",
                       [temp |-> temp, swdown |-> swdown, condition |-> "Heat Stress",
                        stage |-> OptStage(ctx)])>>
        ELSE IF rh < rhThreshold
        THEN <<Insight(day, "irrigation",
                       IF isSandy /\ rh < 50 THEN "critical" ELSE "warning",
                       IF isSandy THEN "add-water-now/sandy" ELSE "add-water-now",
                       [rh |-> rh, condition |-> "High Transpiration", soil |-> OptSoil(ctx)])>>
        ELSE IF swdown < 300
        THEN <<Insight(day, "irrigation", "optimal", "reduce-water-20",
                       [swdown |-> swdown, condition |-> "Low Light"])>>
        ELSE <<>>

\* Mutant: heat stress is not escalated for a plot in bloom.
analyzeIrrigationStageBlind(day, ctx) ==
    LET rh == day.rh_percent
        temp == day.tc_max
        swdown == day.swdown
        isSandy == OptSoil(ctx) = "sandy"
        rhThreshold == IF isSandy THEN 60 ELSE 50
    IN  IF rh < rhThreshold
        THEN <<Insight(day, "irrigation",
                       IF isSandy /\ rh < 50 THEN "critical" ELSE "warning",
                       IF isSandy THEN "add-water-now/sandy" ELSE "add-water-now",
                       [rh |-> rh, condition |-> "High Transpiration", soil |-> OptSoil(ctx)])>>
        ELSE IF temp > 35 /\ swdown > 600
        THEN <<Insight(day, "irrigation", "warning", "cooling-water",
                       [temp |-> temp, swdown |-> swdown, condition |-> "Heat Stress",
                        stage |-> OptStage(ctx)])>>
        ELSE IF swdown < 300
        THEN <<Insight(day, "irrigation", "optimal", "reduce-water-20",
                       [swdown |-> swdown, condition |-> "Low Light"])>>
        ELSE <<>>

\* Mutant: the sandy-soil threshold is not raised and every firing is critical.
analyzeIrrigationSoilBlind(day, ctx) ==
    LET rh == day.rh_percent
        temp == day.tc_max
        swdown == day.swdown
        isBloom == OptStage(ctx) = "bloom"
    IN  IF rh < 50
        THEN <<Insight(day, "irrigation", "critical", "add-water-now",
                       [rh |-> rh, condition |-> "High Transpiration", soil |-> OptSoil(ctx)])>>
        ELSE IF temp > 35 /\ swdown > 600
        THEN <<Insight(day, "irrigation",
                       IF isBloom THEN "critical" ELSE "warning",
                       IF isBloom THEN "cooling-water/bloom" ELSE "cooling-water",
                       [temp |-> temp, swdown |-> swdown, condition |-> "Heat Stress",
                        stage |-> OptStage(ctx)])>>
        ELSE IF swdown < 300
        THEN <<Insight(day, "irrigation", "optimal", "reduce-water-20",
                       [swdown |-> swdown, condition |-> "Low Light"])>>
        ELSE <<>>

analyzeIrrigation(day, ctx) ==
    LET rh == day.rh_percent
        temp == day.tc_max
        swdown == day.swdown
        isSandy == OptSoil(ctx) = "sandy"
        rhThreshold == IF isSandy THEN 60 ELSE 50
        isBloom == OptStage(ctx) = "bloom"
    IN  IF rh < rhThreshold
        THEN <<Insight(day, "irrigation",
                       IF isSandy /\ rh < 50 THEN "critical" ELSE "warning",
                       IF isSandy THEN "add-water-now/sandy" ELSE "add-water-now",
                       [rh |-> rh, condition |-> "High Transpiration", soil |-> OptSoil(ctx)])>>
        ELSE IF temp > 35 /\ swdown > 600
        THEN <<Insight(day, "irrigation",
                       IF isBloom THEN "critical" ELSE "warning",
                       IF isBloom THEN "cooling-water/bloom" ELSE "cooling-water",
                       [temp |-> temp, swdown |-> swdown, condition |-> "Heat Stress",
                        stage |-> OptStage(ctx)])>>
        ELSE IF swdown < 300
        THEN <<Insight(day, "irrigation", "optimal", "reduce-water-20",
                       [swdown |-> swdown, condition |-> "Low Light"])>>
        ELSE <<>>

\* Mutant: the third condition ignores the stage, as in conditions.ts.
analyzePhysiologyStageBlindInduction(day, ctx) ==
    LET swdown == day.swdown
        rh == day.rh_percent
        rain == day.rain_mm
        temp == day.tc_max
        stage == IF HasContext(ctx) THEN ctx.stage ELSE "preparing_leaf"
        isCriticalStage == stage = "bloom" \/ stage = "fruit_set"
    IN  IF swdown > 600 /\ rh < 50
        THEN <<Insight(day, "physiology",
                       IF isCriticalStage THEN "critical" ELSE "warning",
                       IF isCriticalStage THEN "nutrient-lock/critical-stage" ELSE "nutrient-lock",
                       [swdown |-> swdown, rh |-> rh, condition |-> "Nutrient Lock",
                        stage |-> stage])>>
        ELSE IF rain > 5
        THEN IF stage = "bloom"
             THEN <<Insight(day, "physiology", "critical", "rain-washes-bloom",
                            [rain |-> rain, condition |-> "Raun on Bloom", stage |-> stage])>>
             ELSE <<Insight(day, "physiology", "critical", "drought-break",
                            [rain |-> rain, condition |-> "Drought Break"])>>
        ELSE IF rain = 0 /\ temp > 32
        THEN <<Insight(day, "physiology", "optimal", "ideal-induction",
                       [rain |-> rain, temp |-> temp, condition |-> "Ideal Induction"])>>
        ELSE <<>>

\* Mutant: rain on an open bloom is reported as the ordinary drought break.
analyzePhysiologyStageBlindRain(day, ctx) ==
    LET swdown == day.swdown
        rh == day.rh_percent
        rain == day.rain_mm
        temp == day.tc_max
        stage == IF HasContext(ctx) THEN ctx.stage ELSE "preparing_leaf"
        isCriticalStage == stage = "bloom" \/ stage = "fruit_set"
    IN  IF swdown > 600 /\ rh < 50
        THEN <<Insight(day, "physiology",
                       IF isCriticalStage THEN "critical" ELSE "warning",
                       IF isCriticalStage THEN "nutrient-lock/critical-stage" ELSE "nutrient-lock",
                       [swdown |-> swdown, rh |-> rh, condition |-> "Nutrient Lock",
                        stage |-> stage])>>
        ELSE IF rain > 5
        THEN <<Insight(day, "physiology", "critical", "drought-break",
                       [rain |-> rain, condition |-> "Drought Break"])>>
        ELSE IF rain = 0 /\ temp > 32
        THEN IF stage = "induction" \/ stage = "preparing_leaf"
             THEN <<Insight(day, "physiology", "optimal", "ideal-induction",
                            [rain |-> rain, temp |-> temp, condition |-> "Ideal Induction"])>>
             ELSE IF stage = "bloom"
             THEN <<Insight(day, "physiology", "warning", "bloom-stress",
                            [rain |-> rain, temp |-> temp, condition |-> "Bloom Stress",
                             stage |-> stage])>>
             ELSE <<>>
        ELSE <<>>

\* Mutant: the nutrient lock is a warning at every stage, as in conditions.ts.
analyzePhysiologyNoEscalation(day, ctx) ==
    LET swdown == day.swdown
        rh == day.rh_percent
        rain == day.rain_mm
        temp == day.tc_max
        stage == IF HasContext(ctx) THEN ctx.stage ELSE "preparing_leaf"
    IN  IF swdown > 600 /\ rh < 50
        THEN <<Insight(day, "physiology", "warning", "nutrient-lock",
                       [swdown |-> swdown, rh |-> rh, condition |-> "Nutrient Lock",
                        stage |-> stage])>>
        ELSE IF rain > 5
        THEN IF stage = "bloom"
             THEN <<Insight(day, "physiology", "critical", "rain-washes-bloom",
                            [rain |-> rain, condition |-> "Raun on Bloom", stage |-> stage])>>
             ELSE <<Insight(day, "physiology", "critical", "drought-break",
                            [rain |-> rain, condition |-> "Drought Break"])>>
        ELSE IF rain = 0 /\ temp > 32
        THEN IF stage = "induction" \/ stage = "preparing_leaf"
             THEN <<Insight(day, "physiology", "optimal", "ideal-induction",
                            [rain |-> rain, temp |-> temp, condition |-> "Ideal Induction"])>>
             ELSE IF stage = "bloom"
             THEN <<Insight(day, "physiology", "warning", "bloom-stress",
                            [rain |-> rain, temp |-> temp, condition |-> "Bloom Stress",
                             stage |-> stage])>>
             ELSE <<>>
        ELSE <<>>

analyzePhysiology(day, ctx) ==
    LET swdown == day.swdown
        rh == day.rh_percent
        rain == day.rain_mm
        temp == day.tc_max
        \* context?.stage || 'preparing_leaf'
        stage == IF HasContext(ctx) THEN ctx.stage ELSE "preparing_leaf"
        isCriticalStage == stage = "bloom" \/ stage = "fruit_set"
    IN  IF swdown > 600 /\ rh < 50
        THEN <<Insight(day, "physiology",
                       IF isCriticalStage THEN "critical" ELSE "warning",
                       IF isCriticalStage THEN "nutrient-lock/critical-stage" ELSE "nutrient-lock",
                       [swdown |-> swdown, rh |-> rh, condition |-> "Nutrient Lock",
                        stage |-> stage])>>
        ELSE IF rain > 5
        THEN IF stage = "bloom"
             THEN <<Insight(day, "physiology", "critical", "rain-washes-bloom",
                            [rain |-> rain, condition |-> "Raun on Bloom", stage |-> stage])>>
             ELSE <<Insight(day, "physiology", "critical", "drought-break",
                            [rain |-> rain, condition |-> "Drought Break"])>>
        ELSE IF rain = 0 /\ temp > 32
        THEN IF stage = "induction" \/ stage = "preparing_leaf"
             THEN <<Insight(day, "physiology", "optimal", "ideal-induction",
                            [rain |-> rain, temp |-> temp, condition |-> "Ideal Induction"])>>
             ELSE IF stage = "bloom"
             THEN <<Insight(day, "physiology", "warning", "bloom-stress",
                            [rain |-> rain, temp |-> temp, condition |-> "Bloom Stress",
                             stage |-> stage])>>
             ELSE <<>>
        ELSE <<>>

\* Mutant: the high-humidity warning is given on rainy days only.
analyzeDiseaseNeedsRain(day, ctx) ==
    LET rh == day.rh_percent
        rain == day.rain_mm
    IN  IF rain > 10 /\ rh > 80
        THEN <<Insight(day, "disease", "critical", "fungus-risk-critical",
                       [rain |-> rain, rh |-> rh, condition |-> "Phytophthora Risk"])>>
        ELSE IF rh > 90 /\ rain > 0
        THEN <<Insight(day, "disease", "warning", "leaf-blight-watch",
                       [rh |-> rh, condition |-> "High Humidity"])>>
        ELSE <<>>

analyzeDisease(day, ctx) ==
    LET rh == day.rh_percent
        rain == day.rain_mm
    IN  IF rain > 10 /\ rh > 80
        THEN <<Insight(day, "disease", "critical", "fungus-risk-critical",
                       [rain |-> rain, rh |-> rh, condition |-> "Phytophthora Risk"])>>
        ELSE IF rh > 90
        THEN <<Insight(day, "disease", "warning", "leaf-blight-watch",
                       [rh |-> rh, condition |-> "High Humidity"])>>
        ELSE <<>>

\* Mutant: the thrips advisory has the same severity at every stage.
analyzePestStageBlind(day, ctx) ==
    LET rh == day.rh_percent
        temp == day.tc_max
        rain == day.rain_mm
        stage == OptStage(ctx)
    IN  IF temp > 33 /\ rh < 50
        THEN <<Insight(day, "disease", "warning", "red-mite",
                       [temp |-> temp, rh |-> rh, condition |-> "Red Mite Boom"])>>
        ELSE IF rain = 0
        THEN <<Insight(day, "disease", "info", "thrips",
                       [rain |-> rain, condition |-> "Thrips Alert", stage |-> stage])>>
        ELSE <<>>

\* Mutant: the pest analyzer files its insights under a category of its own.
analyzePestOwnCategory(day, ctx) ==
    LET rh == day.rh_percent
        temp == day.tc_max
        rain == day.rain_mm
        stage == OptStage(ctx)
        sensitiveStage == stage = "bloom" \/ stage = "preparing_leaf"
    IN  IF temp > 33 /\ rh < 50
        THEN <<Insight(day, "pest", "warning", "red-mite",
                       [temp |-> temp, rh |-> rh, condition |-> "Red Mite Boom"])>>
        ELSE IF rain = 0
        THEN <<Insight(day, "pest",
                       IF sensitiveStage THEN "critical" ELSE "info",
                       IF sensitiveStage THEN "thrips/sensitive-stage" ELSE "thrips",
                       [rain |-> rain, condition |-> "Thrips Alert", stage |-> stage])>>
        ELSE <<>>

analyzePest(day, ctx) ==
    LET rh == day.rh_percent
        temp == day.tc_max
        rain == day.rain_mm
        stage == OptStage(ctx)
        sensitiveStage == stage = "bloom" \/ stage = "preparing_leaf"
    IN  IF temp > 33 /\ rh < 50
        THEN <<Insight(day, "disease", "warning", "red-mite",
                       [temp |-> temp, rh |-> rh, condition |-> "Red Mite Boom"])>>
        ELSE IF rain = 0
        THEN <<Insight(day, "disease",
                       IF sensitiveStage THEN "critical" ELSE "info",
                       IF sensitiveStage THEN "thrips/sensitive-stage" ELSE "thrips",
                       [rain |-> rain, condition |-> "Thrips Alert", stage |-> stage])>>
        ELSE <<>>

------------------------------------------------------------------------------
(* Rule evaluator, context-naive (Phase 1): src/src/lib/conditions.ts        *)

analyzeIrrigationPhase1(day) ==
    LET rh == day.rh_percent
        temp == day.tc_max
        swdown == day.swdown
    IN  IF rh < 50
        THEN <<Insight(day, "irrigation", "critical", "add-water-20-30",
                       [rh |-> rh, condition |-> "High Transpiration"])>>
        ELSE IF temp > 35 /\ swdown > 600
        THEN <<Insight(day, "irrigation", "warning", "cooling-water",
                       [temp |-> temp, swdown |-> swdown, condition |-> "Heat Stress"])>>
        ELSE IF swdown < 300
        THEN <<Insight(day, "irrigation", "optimal", "reduce-water-20",
                       [swdown |-> swdown, condition |-> "Low Light"])>>
        ELSE <<>>

analyzePhysiologyPhase1(day) ==
    LET swdown == day.swdown
        rh == day.rh_percent
        rain == day.rain_mm
        temp == day.tc_max
    IN  IF swdown > 600 /\ rh < 50
        THEN <<Insight(day, "physiology", "warning", "nutrient-lock",
                       [swdown |-> swdown, rh |-> rh, condition |-> "Nutrient Lock"])>>
        ELSE IF rain > 5
        THEN <<Insight(day, "physiology", "critical", "drought-break",
                       [rain |-> rain, condition |-> "Drought Break"])>>
        ELSE IF rain = 0 /\ temp > 32
        THEN <<Insight(day, "physiology", "optimal", "ideal-induction",
                       [rain |-> rain, temp |-> temp, condition |-> "Ideal Induction"])>>
        ELSE <<>>

analyzeDiseasePhase1(day) ==
    LET rh == day.rh_percent
        rain == day.rain_mm
    IN  IF rain > 10 /\ rh > 80
        THEN <<Insight(day, "disease", "critical", "fungus-risk-critical",
                       [rain |-> rain, rh |-> rh, condition |-> "Phytophthora Risk"])>>
        ELSE IF rh > 90
        THEN <<Insight(day, "disease", "warning", "leaf-blight-watch",
                       [rh |-> rh, condition |-> "High Humidity"])>>
        ELSE <<>>

analyzePestPhase1(day) ==
    LET rh == day.rh_percent
        temp == day.tc_max
        rain == day.rain_mm
    IN  IF temp > 33 /\ rh < 50
        THEN <<Insight(day, "disease", "warning", "red-mite",
                       [temp |-> temp, rh |-> rh, condition |-> "Red Mite Boom"])>>
        ELSE IF rain = 0
        THEN <<Insight(day, "disease", "info", "thrips",
                       [rain |-> rain, condition |-> "Thrips Alert"])>>
        ELSE <<>>

------------------------------------------------------------------------------
(* Inputs of the rule evaluator: values on both sides of every threshold.    *)


RuleForecasts ==
    [location_id : {"suan-makham"}, forecast_date : {"2026-01-26"},
     swdown : {200, 300, 600, 700}, tc_max : {30, 33, 34, 36}, tc_min : {24},
     rh_percent : {45, 50, 55, 60, 80, 85, 90, 95}, rain_mm : {0, 5, 8, 10, 20}]

RuleProfile(stage, soil) ==
    [lat |-> 12658602, lon |-> 102204633, name_th |-> "suan makham",
     stage |-> stage, soil |-> soil, water |-> "high_manganese_iron",
     personality |-> [sensitivity_drought |-> 10, sensitivity_flood |-> 2,
                      critical_asset |-> "durian"]]

RuleContexts ==
    {RuleProfile(st, so) : st \in GrowthStage, so \in {"sandy", "loamy", "clayey_filled"}}
        \cup {NoContext}

NoForecast == [location_id |-> "", forecast_date |-> ""]

InitRules ==
    /\ engine = "none"
    /\ forecast = NoForecast
    /\ context = NoContext
    /\ irrigation = <<>>
    /\ disease = <<>>
    /\ physio = <<>>
    /\ pest = <<>>

\* One iteration of runSynthesis' loop over the de-duplicated forecasts
\* (part_001:42-64), with the Phase 2 analyzers.
AnalyzeForecast ==
    /\ engine = "none"
    /\ \E f \in RuleForecasts, c \in RuleContexts :
        /\ engine' = "phase2"
        /\ forecast' = f
        /\ context' = c
        /\ irrigation' = analyzeIrrigation(f, c)
        /\ disease' = analyzeDisease(f, c)
        /\ physio' = analyzePhysiology(f, c)
        /\ pest' = analyzePest(f, c)
    /\ UNCHANGED outsideRules

\* The same iteration with the Phase 1 analyzers, which take no profile.
AnalyzeForecastPhase1 ==
    /\ engine = "none"
    /\ \E f \in RuleForecasts :
        /\ engine' = "phase1"
        /\ forecast' = f
        /\ context' = NoContext
        /\ irrigation' = analyzeIrrigationPhase1(f)
        /\ disease' = analyzeDiseasePhase1(f)
        /\ physio' = analyzePhysiologyPhase1(f)
        /\ pest' = analyzePestPhase1(f)
    /\ UNCHANGED outsideRules

NextRules == AnalyzeForecast \/ AnalyzeForecastPhase1

------------------------------------------------------------------------------
(* Manifest generator: src/src/lib/manifest-generator.ts                     *)

Mode == {"vpd", "rain", "temp", "default"}

\* String.prototype.toLowerCase on the tags a profile carries
ToLowerCase(str) ==
    CASE str = "Durian" -> "durian"
      [] str = "Seedling" -> "seedling"
      [] str = "Bloom" -> "bloom"
      [] OTHER -> str

\* profile.soil.includes('clayey_filled'): of the soil types of plot-mapper.ts
\* only clayey_filled contains that text
SoilIncludesClayeyFilled(soil) == soil = "clayey_filled"

\* d.rainMm || 0, rainMm being optional in DailyMetData
RainMmOrZero(d) == IF "rainMm" \in DOMAIN d THEN d.rainMm ELSE 0

RECURSIVE SeqMax(_)
SeqMax(xs) ==
    IF Len(xs) = 1 THEN xs[1]
    ELSE LET m == SeqMax(Tail(xs)) IN IF xs[1] > m THEN xs[1] ELSE m

RECURSIVE SeqSum(_)
SeqSum(xs) == IF xs = <<>> THEN 0 ELSE xs[1] + SeqSum(Tail(xs))

MapSeq(xs, Op(_)) == [i \in 1..Len(xs) |-> Op(xs[i])]

\* `if (Math.max(...xs) > cur) cur = Math.max(...xs)`; Math.max() of no
\* argument is -Infinity, which exceeds nothing
RaiseTo(cur, xs) ==
    IF xs = <<>> THEN cur ELSE IF SeqMax(xs) > cur THEN SeqMax(xs) ELSE cur

\* slice(0, n)
Slice0(xs, n) == SubSeq(xs, 1, IF Len(xs) < n THEN Len(xs) ELSE n)

Headline(kind, text, value) == [kind |-> kind, text |-> text, value |-> value]
Bullet(kind, plot, headlines) == [kind |-> kind, plot |-> plot, headlines |-> headlines]

\* The forEach of analyzeGlobalContext keeping the headline of the first
\* critical plot instead of the last
RECURSIVE ScanPlotsFirstHeadline(_, _)
ScanPlotsFirstHeadline(plots, n) ==
    IF n = 0
    THEN [maxRain |-> 0, maxVPD |-> 0, isEmergency |-> FALSE,
          headline |-> Headline("overview", "Orchard Overview", 0), bullets |-> <<>>]
    ELSE LET acc == ScanPlotsFirstHeadline(plots, n - 1)
             p == plots[n]
             fc == p.environment.forecast
             critical == p.insight.status = "critical"
         IN  [maxRain |-> RaiseTo(acc.maxRain, MapSeq(fc, RainMmOrZero)),
              maxVPD |-> RaiseTo(acc.maxVPD, MapSeq(fc, LAMBDA d : OrZero(d.vpd))),
              isEmergency |-> acc.isEmergency \/ critical,
              headline |->
                  IF critical /\ ~acc.isEmergency
                  THEN Headline("critical",
                                IF p.insight.headlines # <<>> THEN p.insight.headlines[1]
                                ELSE "CRITICAL ALERT", 0)
                  ELSE acc.headline,
              bullets |->
                  IF critical
                  THEN Append(acc.bullets, Bullet("critical", p.plot.id, p.insight.headlines))
                  ELSE acc.bullets]

\* The forEach of analyzeGlobalContext (lines 98-112) over the first n plots:
\* the accumulators maxRain, maxVPD, isEmergency, headline, bullets.
RECURSIVE ScanPlots(_, _)
ScanPlots(plots, n) ==
    IF n = 0
    THEN [maxRain |-> 0, maxVPD |-> 0, isEmergency |-> FALSE,
          headline |-> Headline("overview", "Orchard Overview", 0), bullets |-> <<>>]
    ELSE LET acc == ScanPlots(plots, n - 1)
             p == plots[n]
             fc == p.environment.forecast
             critical == p.insight.status = "critical"
         IN  [maxRain |-> RaiseTo(acc.maxRain, MapSeq(fc, RainMmOrZero)),
              maxVPD |-> RaiseTo(acc.maxVPD, MapSeq(fc, LAMBDA d : OrZero(d.vpd))),
              isEmergency |-> acc.isEmergency \/ critical,
              headline |->
                  IF critical
                  THEN Headline("critical",
                                IF p.insight.headlines # <<>> THEN p.insight.headlines[1]
                                ELSE "CRITICAL ALERT", 0)
                  ELSE acc.headline,
              bullets |->
                  IF critical
                  THEN Append(acc.bullets, Bullet("critical", p.plot.id, p.insight.headlines))
                  ELSE acc.bullets]

\* Mutant: the rain threshold is tested before the critical flag.
analyzeGlobalContextRainFirst(plots) ==
    LET scan == ScanPlots(plots, Len(plots))
        rainAlert == scan.maxRain > 50
        vpdAlert == ~rainAlert /\ ~scan.isEmergency /\ scan.maxVPD > 200
    IN  [isEmergency |-> scan.isEmergency \/ rainAlert,
         isDrought |-> scan.maxVPD > 150,
         isMobile |-> FALSE,
         headline |-> IF rainAlert THEN Headline("heavy-rain", "Heavy Rain Alert", scan.maxRain)
                      ELSE IF vpdAlert
                      THEN Headline("high-transpiration", "High Transpiration Rate", scan.maxVPD)
                      ELSE scan.headline,
         bulletPoints |-> <<Bullet("nominal", "", <<>>)>>,
         mode |-> IF rainAlert \/ scan.isEmergency THEN "rain"
                  ELSE IF vpdAlert THEN "vpd" ELSE "default"]

analyzeGlobalContext(plots) ==
    LET scan == ScanPlots(plots, Len(plots))
        rainAlert == ~scan.isEmergency /\ scan.maxRain > 50
        vpdAlert == ~scan.isEmergency /\ ~rainAlert /\ scan.maxVPD > 200
        bullets == IF rainAlert THEN Append(scan.bullets, Bullet("rain", "", <<>>))
                   ELSE IF vpdAlert THEN Append(scan.bullets, Bullet("vpd", "", <<>>))
                   ELSE scan.bullets
    IN  [isEmergency |-> scan.isEmergency \/ rainAlert,
         isDrought |-> scan.maxVPD > 150,
         isMobile |-> FALSE,
         headline |-> IF rainAlert THEN Headline("heavy-rain", "Heavy Rain Alert", scan.maxRain)
                      ELSE IF vpdAlert
                      THEN Headline("high-transpiration", "High Transpiration Rate", scan.maxVPD)
                      ELSE scan.headline,
         bulletPoints |-> IF bullets # <<>> THEN bullets
                          ELSE <<Bullet("nominal", "", <<>>)>>,
         mode |-> IF scan.isEmergency \/ rainAlert THEN "rain"
                  ELSE IF vpdAlert THEN "vpd" ELSE "default"]

\* Mutant: the flood override is tested before the durian/bloom override.
ResolveLocalModeFloodFirst(profile, gMode) ==
    LET criticalAsset == ToLowerCase(profile.personality.critical_asset)
        stage == ToLowerCase(profile.stage)
    IN  IF profile.personality.sensitivity_flood > 7 \/ SoilIncludesClayeyFilled(profile.soil)
        THEN "rain"
        ELSE IF criticalAsset = "durian" \/ stage = "bloom" \/ stage = "pollination"
        THEN "vpd"
        ELSE IF criticalAsset = "seedling" THEN "temp"
        ELSE gMode

\* generatePlotComponents, lines 144-157: the final value of localMode
ResolveLocalMode(profile, gMode) ==
    LET criticalAsset == ToLowerCase(profile.personality.critical_asset)
        stage == ToLowerCase(profile.stage)
    IN  IF criticalAsset = "durian" \/ stage = "bloom" \/ stage = "pollination"
        THEN "vpd"
        ELSE IF profile.personality.sensitivity_flood > 7
                \/ SoilIncludesClayeyFilled(profile.soil)
        THEN "rain"
        ELSE IF criticalAsset = "seedling" THEN "temp"
        ELSE gMode

\* generatePlotComponents, lines 159-220: the chart of the resolved mode
HeroChart(st, mode) ==
    LET forecasts == st.environment.forecast
        labels == MapSeq(forecasts, LAMBDA f : f.date)
    IN  CASE mode = "vpd" ->
               [title |-> "VPD & Stress Index", desc |-> "Transpiration Monitor",
                chartType |-> "line", labels |-> labels,
                datasets |-> <<[label |-> "VPD (kPa)",
                                data |-> MapSeq(forecasts, LAMBDA f : f.vpd)]>>]
          [] mode = "rain" ->
               [title |-> "Precipitation & Flood Risk", desc |-> "Flood Watch",
                chartType |-> "mixed", labels |-> labels,
                datasets |-> <<[label |-> "Rain (mm)",
                                data |-> MapSeq(forecasts, RainMmOrZero)],
                               [label |-> "ETo (mm)",
                                data |-> MapSeq(forecasts, LAMBDA f : f.eto)]>>]
          [] mode = "temp" ->
               [title |-> "Heat Stress (Max Temp)", desc |-> "Heat Watch",
                chartType |-> "line", labels |-> labels,
                datasets |-> <<[label |-> "Max Temp (C)",
                                data |-> MapSeq(forecasts, LAMBDA f : f.tempMax)]>>]
          [] OTHER ->
               [title |-> "General Forecast", desc |-> "Monitoring conditions",
                chartType |-> "mixed", labels |-> labels,
                datasets |-> <<[label |-> "Max Temp",
                                data |-> MapSeq(forecasts, LAMBDA f : f.tempMax)],
                               [label |-> "Rain %",
                                data |-> MapSeq(forecasts, LAMBDA f : f.rainProb)]>>]

\* generatePlotComponents, lines 222-231; the value is in tenths (toFixed(1))
PrimaryMetric(st, mode) ==
    IF mode = "rain"
    THEN [label |-> "Rain (3d)",
          value |-> 10 * SeqSum(MapSeq(st.environment.forecast, RainMmOrZero))]
    ELSE [label |-> "Daily GDD",
          value |-> RoundDiv(OrZero(st.environment.current.gdd), 10)]

generatePlotComponents(st, gMode) ==
    LET profile == st.plot.profile
        mode == ResolveLocalMode(profile, gMode)
        card == [type |-> "PLOT_COMPOSITE", id |-> <<"plot_", st.plot.id>>, colSpan |-> 1,
                 props |-> [plotName |-> st.plot.id,
                            stage |-> profile.stage,
                            tags |-> <<ToLowerCase(profile.personality.critical_asset),
                                       profile.soil>>,
                            primaryMetric |-> PrimaryMetric(st, mode),
                            heroChart |-> HeroChart(st, mode),
                            recentActivities |->
                                MapSeq(Slice0(st.activities.recent, 2),
                                       LAMBDA a : [date |-> a.date, note |-> a.notes])]]
        table == [type |-> "TABLE_CARD", id |-> <<"activity_table_", st.plot.id>>, colSpan |-> 4,
                  props |-> [title |-> <<"Activity History", st.plot.id>>,
                             rows |-> MapSeq(Slice0(st.activities.recent, 10),
                                             LAMBDA a : <<a.date, a.type, a.notes>>)]]
    IN  IF st.plot.id = "suan_makham" THEN <<card, table>> ELSE <<card>>

\* generateManifest, lines 52-58: the cards of the first n plots
RECURSIVE PlotCards(_, _, _, _)
PlotCards(plots, n, filter, gMode) ==
    IF n = 0 THEN <<>>
    ELSE PlotCards(plots, n - 1, filter, gMode)
            \o (IF filter # "" /\ plots[n].plot.id # filter THEN <<>>
                ELSE generatePlotComponents(plots[n], gMode))

\* Mutant: the components are collected in a module-level array that a call
\* does not reset.
generateManifestKeepsComponents(plots, filter) ==
    LET ctx == analyzeGlobalContext(plots)
        banner == [type |-> "INSIGHT_CARD", id |-> <<"global_summary">>, colSpan |-> 4,
                   props |-> [title |-> ctx.headline,
                              severity |-> IF ctx.isEmergency THEN "critical" ELSE "info",
                              messages |-> ctx.bulletPoints]]
    IN  [summary |-> IF filter # "" THEN Headline("focus", filter, 0) ELSE ctx.headline,
         theme |-> IF ctx.isEmergency THEN "emergency-red"
                   ELSE IF ctx.isDrought THEN "drought-orange" ELSE "nominal",
         layout |-> IF ctx.isMobile THEN "mobile-focus" ELSE "dashboard-v1",
         visual_manifest |-> (IF call = "none" THEN <<>> ELSE manifest.visual_manifest)
                                \o (IF filter = "" THEN <<banner>> ELSE <<>>)
                                \o PlotCards(plots, Len(plots), filter, ctx.mode),
         meta |-> [generated_at |-> now, horizon_days |-> 3, version |-> "2.0-headless"]]

\* Mutant: the theme is drought-orange only above the mode threshold.
generateManifestOneThreshold(plots, filter) ==
    LET ctx == analyzeGlobalContext(plots)
        banner == [type |-> "INSIGHT_CARD", id |-> <<"global_summary">>, colSpan |-> 4,
                   props |-> [title |-> ctx.headline,
                              severity |-> IF ctx.isEmergency THEN "critical" ELSE "info",
                              messages |-> ctx.bulletPoints]]
    IN  [summary |-> IF filter # "" THEN Headline("focus", filter, 0) ELSE ctx.headline,
         theme |-> IF ctx.isEmergency THEN "emergency-red"
                   ELSE IF ctx.mode = "vpd" THEN "drought-orange" ELSE "nominal",
         layout |-> IF ctx.isMobile THEN "mobile-focus" ELSE "dashboard-v1",
         visual_manifest |-> (IF filter = "" THEN <<banner>> ELSE <<>>)
                                \o PlotCards(plots, Len(plots), filter, ctx.mode),
         meta |-> [generated_at |-> now, horizon_days |-> 3, version |-> "2.0-headless"]]

generateManifest(plots, filter) ==
    LET ctx == analyzeGlobalContext(plots)
        banner == [type |-> "INSIGHT_CARD", id |-> <<"global_summary">>, colSpan |-> 4,
                   props |-> [title |-> ctx.headline,
                              severity |-> IF ctx.isEmergency THEN "critical" ELSE "info",
                              messages |-> ctx.bulletPoints]]
    IN  [summary |-> IF filter # "" THEN Headline("focus", filter, 0) ELSE ctx.headline,
         theme |-> IF ctx.isEmergency THEN "emergency-red"
                   ELSE IF ctx.isDrought THEN "drought-orange" ELSE "nominal",
         layout |-> IF ctx.isMobile THEN "mobile-focus" ELSE "dashboard-v1",
         visual_manifest |-> (IF filter = "" THEN <<banner>> ELSE <<>>)
                                \o PlotCards(plots, Len(plots), filter, ctx.mode),
         meta |-> [generated_at |-> now, horizon_days |-> 3, version |-> "2.0-headless"]]

------------------------------------------------------------------------------
(* Inputs of the manifest generator                                          *)

MaxPlots == 2

\* The hard-coded profile table: plot-mapper.ts PLOT_PROFILES (lines 27-100),
\* repeated as FALLBACK_PROFILES in part_013:21-78.  lat and lon are in
\* millionths of a degree.
PlotProfile(name, lat, lon, stage, soil, water, drought, flood, asset) ==
    [name_th |-> name, lat |-> lat, lon |-> lon, stage |-> stage, soil |-> soil,
     water |-> water,
     personality |-> [sensitivity_drought |-> drought, sensitivity_flood |-> flood,
                      critical_asset |-> asset]]

ProfileHouse ==
    PlotProfile("suan ban", 12552967, 102155557, "bloom", "loamy_sandy",
                "clean_mountain", 9, 3, "showcase")
ProfileTamarind ==
    PlotProfile("suan makham", 12658602, 102204633, "bloom", "sandy",
                "high_manganese_iron", 10, 2, "durian")
ProfileLower ==
    PlotProfile("suan lang", 12546194, 102140010, "preparing_leaf", "clayey_filled",
                "normal", 4, 8, "mangosteen")
ProfilePram ==
    PlotProfile("plaeng phan mai", 12552967, 102155557, "seedling", "loamy_sandy",
                "clean_mountain", 9, 5, "showcase")

\* DailyMetData (part_010:52-60); vpd, gdd and eto in hundredths
MetDay(date, rainMm, vpd) ==
    [date |-> date, tempMax |-> 33, tempMin |-> 24, humidity |-> 60, rainProb |-> 20,
     rainMm |-> rainMm, vpd |-> Num(vpd), gdd |-> Num(1850), eto |-> Num(450)]
\* a day whose feed carries no rain volume (rainMm is optional)
MetDayNoRain(date, vpd) ==
    [date |-> date, tempMax |-> 33, tempMin |-> 24, humidity |-> 60, rainProb |-> 20,
     vpd |-> Num(vpd), gdd |-> Num(1850), eto |-> Num(450)]
ZeroDay ==
    [date |-> 0, tempMax |-> 0, tempMin |-> 0, humidity |-> 0, rainProb |-> 0,
     vpd |-> Num(0), gdd |-> Num(0), eto |-> Num(0)]

\* Forecast series on both sides of the thresholds 50 mm, 2.0 kPa and 1.5 kPa
ManifestForecasts ==
    { <<>>,
      <<MetDay(26, 0, 120), MetDay(27, 0, 130), MetDay(28, 0, 110)>>,
      <<MetDay(26, 50, 200), MetDay(27, 10, 150)>>,
      <<MetDay(26, 0, 120), MetDay(27, 80, 90), MetDay(28, 5, 100)>>,
      <<MetDay(26, 0, 230), MetDay(27, 0, 180)>>,
      <<MetDay(26, 51, 201)>>,
      <<MetDayNoRain(26, 160)>> }

\* insight (part_010:92-95): status and headlines, as set upstream
ManifestInsights(alert) ==
    { [status |-> "nominal", headlines |-> <<>>],
      [status |-> "watch", headlines |-> <<"High Water Stress (VPD > 2.0)">>],
      [status |-> "critical", headlines |-> <<alert, "Heavy Rain Alert (>30mm forecasted)">>],
      [status |-> "critical", headlines |-> <<>>] }

ManifestPlotOrder == <<"plant_shop", "suan_makham", "suan_lang", "suan_ban">>
ManifestProfile ==
    [plant_shop |-> ProfilePram, suan_makham |-> ProfileTamarind,
     suan_lang |-> ProfileLower, suan_ban |-> ProfileHouse]
ManifestAlert ==
    [plant_shop |-> "Seedling trays flooded", suan_makham |-> "Pump failure at makham",
     suan_lang |-> "Canal overflow at lang", suan_ban |-> "Storm damage at ban"]
ManifestRecent ==
    [plant_shop |-> <<[date |-> 25, type |-> "watering", notes |-> "trays"]>>,
     suan_makham |-> <<[date |-> 25, type |-> "spraying", notes |-> "Ca-B"],
                       [date |-> 24, type |-> "watering", notes |-> "drip 2h"],
                       [date |-> 22, type |-> "pruning", notes |-> ""]>>,
     suan_lang |-> <<>>,
     suan_ban |-> <<[date |-> 23, type |-> "monitoring", notes |-> "ok"],
                    [date |-> 21, type |-> "watering", notes |-> "hose"]>>]

Sitrep(id, profile, fc, recent, insight) ==
    [plot |-> [id |-> id, profile |-> profile],
     environment |-> [current |-> IF fc # <<>> THEN fc[1] ELSE ZeroDay, forecast |-> fc],
     activities |-> [recent |-> recent],
     insight |-> insight]

ManifestSitreps(id) ==
    {Sitrep(id, ManifestProfile[id], fc, ManifestRecent[id], ins) :
        fc \in ManifestForecasts, ins \in ManifestInsights(ManifestAlert[id])}

\* data.plots with n plots, in insertion order
ManifestData ==
    UNION {{plots \in [1..n -> UNION {ManifestSitreps(ManifestPlotOrder[i]) : i \in 1..n}] :
               \A i \in 1..n : plots[i].plot.id = ManifestPlotOrder[i]} :
           n \in 0..MaxPlots}

FilterOptions == {"", "suan_makham", "suan_lang"}

\* Profiles for a direct call of generatePlotComponents: every tag the
\* priority chain reads, on both sides of floodSensitivity > 7
CardProfiles ==
    {PlotProfile("plot", 12552967, 102155557, st, so, "normal", 5, fl, as) :
        st \in GrowthStage \cup {"pollination", "Bloom"},
        so \in SoilType,
        fl \in {0, 7, 8, 10},
        as \in {"durian", "Durian", "mangosteen", "showcase", "mixed", "seedling", ""}}

NoSitrep == [plot |-> [id |-> ""]]

InitManifest ==
    /\ call = "none"
    /\ data = <<>>
    /\ filterPlotId = ""
    /\ analysis = [mode |-> "none"]
    /\ manifest = [theme |-> "none"]
    /\ sitrep = NoSitrep
    /\ globalMode = "none"
    /\ localMode = "none"
    /\ plotComponents = <<>>
    /\ now = 0
    /\ manifestAgain = [theme |-> "none"]

\* generateManifest(data, filterPlotId): lines 24-71
GenerateManifest ==
    /\ call = "none"
    /\ \E plots \in ManifestData, filter \in FilterOptions :
        /\ call' = "generateManifest"
        /\ data' = plots
        /\ filterPlotId' = filter
        /\ analysis' = analyzeGlobalContext(plots)
        /\ manifest' = generateManifest(plots, filter)
    /\ UNCHANGED <<sitrep, globalMode, localMode, plotComponents, now, manifestAgain>>
    /\ UNCHANGED outsideManifest

\* Time passes between two calls unless the clock is pinned.
AdvanceClock ==
    /\ call = "generateManifest"
    /\ now = 0
    /\ now' = now + 1
    /\ UNCHANGED <<call, data, filterPlotId, analysis, manifest, sitrep, globalMode,
                   localMode, plotComponents, manifestAgain>>
    /\ UNCHANGED outsideManifest

\* A second call generateManifest(data, filterPlotId) of the same process on
\* the input of the first.
GenerateManifestAgain ==
    /\ call = "generateManifest"
    /\ call' = "generateManifestAgain"
    /\ analysis' = analyzeGlobalContext(data)
    /\ manifestAgain' = generateManifest(data, filterPlotId)
    /\ UNCHANGED <<data, filterPlotId, manifest, sitrep, globalMode, localMode,
                   plotComponents, now>>
    /\ UNCHANGED outsideManifest

\* generatePlotComponents(sitrep, globalMode): lines 143-290
GeneratePlotComponents ==
    /\ call = "none"
    /\ \E profile \in CardProfiles, gMode \in Mode :
        LET st == Sitrep("suan_lang", profile,
                         <<MetDay(26, 12, 120), MetDay(27, 30, 130)>>, <<>>,
                         [status |-> "nominal", headlines |-> <<>>])
        IN  /\ call' = "generatePlotComponents"
            /\ sitrep' = st
            /\ globalMode' = gMode
            /\ localMode' = ResolveLocalMode(profile, gMode)
            /\ plotComponents' = generatePlotComponents(st, gMode)
    /\ UNCHANGED <<data, filterPlotId, analysis, manifest, now, manifestAgain>>
    /\ UNCHANGED outsideManifest

NextManifest == GenerateManifest \/ GeneratePlotComponents

NextRepeated == GenerateManifest \/ AdvanceClock \/ GenerateManifestAgain

------------------------------------------------------------------------------
(* Formula library: src/src/lib/agronomy.ts                                  *)
(* Temperatures are whole degrees, a mean temperature is in half degrees,    *)
(* results are in hundredths.  A date is its day of the year.                *)

\* Math.max(a, b): NaN when either argument is NaN
MathMax(a, b) ==
    IF a.nan \/ b.nan THEN NaN ELSE IF a.v >= b.v THEN a ELSE b

\* Math.pow(x, 0.5) in hundredths: NaN for a negative base
Isqrt(n) == CHOOSE r \in 0..1000 : r * r <= n /\ (r + 1) * (r + 1) > n
PowHalf(x) == IF x < 0 THEN NaN ELSE Num(Isqrt(10000 * x))

\* calculateGDD without Math.max(0, gdd)
calculateGDDUnclamped(tMax, tMin, tBase) ==
    Num(50 * (tMax + tMin) - 100 * tBase)

\* calculateGDD(tMax, tMin, tBase), in hundredths of a degree-day
calculateGDD(tMax, tMin, tBase) ==
    LET gdd == 50 * (tMax + tMin) - 100 * tBase
    IN  Num(IF gdd > 0 THEN gdd ELSE 0)

\* 0.6108 * Math.exp((17.27 * temp) / (temp + 237.3)) in 1/10000 kPa, for
\* temp = -30.0, -29.5, ..., 40.0
SvpTable ==
   <<
      502, 526, 552, 578, 606, 635, 665, 697, 729, 764, 799, 836,
      875, 915, 957, 1001, 1046, 1093, 1142, 1193, 1246, 1301, 1359, 1418,
      1480, 1544, 1611, 1680, 1752, 1827, 1905, 1985, 2069, 2155, 2245, 2338,
      2435, 2535, 2638, 2746, 2857, 2972, 3092, 3216, 3344, 3476, 3613, 3756,
      3902, 4055, 4212, 4374, 4543, 4716, 4896, 5082, 5274, 5473, 5678, 5889,
      6108, 6334, 6567, 6808, 7056, 7313, 7578, 7851, 8133, 8423, 8723, 9032,
      9351, 9680, 10019, 10368, 10728, 11099, 11481, 11874, 12280, 12697, 13127, 13570,
      14026, 14495, 14978, 15475, 15986, 16512, 17053, 17610, 18183, 18772, 19377, 20000,
      20640, 21298, 21974, 22669, 23383, 24116, 24870, 25644, 26439, 27256, 28094, 28955,
      29839, 30746, 31678, 32634, 33614, 34621, 35653, 36713, 37799, 38914, 40057, 41229,
      42431, 43663, 44926, 46221, 47548, 48908, 50301, 51730, 53193, 54691, 56227, 57799,
      59410, 61059, 62748, 64477, 66248, 68060, 69915, 71813, 73756
   >>
SaturatedVaporPressure(temp2) == SvpTable[temp2 + 61]

\* calculateVPD returning the actual vapor pressure avp instead of svp - avp
calculateVPDActual(temp2, rh) ==
    LET svp == SaturatedVaporPressure(temp2)
    IN  Num(RoundDiv(svp * rh, 10000))

\* calculateVPD(temp, rh): temp in half degrees, the result in hundredths of a kPa
calculateVPD(temp2, rh) ==
    LET svp == SaturatedVaporPressure(temp2)
    IN  Num(RoundDiv(svp * (100 - rh), 10000))

getDayOfYear(date) == date

\* Ra of calculateHargreavesETo (lines 45-59), in tenths of MJ/m2/day, lat in
\* millionths of a degree.  At the orchard's latitudes (12.5 N .. 12.7 N) Ra
\* is tabulated by day of year; at 78 N the argument of Math.acos leaves
\* [-1, 1] on these days, so ws and Ra are NaN.
ExtraterrestrialRadiation(lat, doy) ==
    CASE lat >= 12000000 /\ lat <= 13000000 ->
           Num(CASE doy = 26 -> 315 [] doy = 27 -> 316 [] doy = 28 -> 317
                 [] doy = 29 -> 318 [] doy = 30 -> 319 [] doy = 31 -> 320
                 [] doy = 172 -> 377)
      [] lat = 78000000 -> NaN

\* line 64: eto before the final rounding and clamp, rounded to hundredths
RawETo(tMax, tMin, lat, date) ==
    LET Ra == ExtraterrestrialRadiation(lat, getDayOfYear(date))
        tMean10 == 5 * (tMax + tMin)
        root == PowHalf(tMax - tMin)
    IN  IF Ra.nan \/ root.nan THEN NaN
        ELSE Num(RoundDiv(RoundDiv(23 * (tMean10 + 178) * root.v, 100) * Ra.v, 10000))

\* calculateHargreavesETo: Math.max(0, Number(eto.toFixed(2)))
calculateHargreavesETo(tMax, tMin, lat, date) ==
    MathMax(Num(0), RawETo(tMax, tMin, lat, date))


Returned(v) == [threw |-> FALSE, value |-> v]

InitAgronomy ==
    /\ formula = "none"
    /\ args = <<>>
    /\ returned = Returned(Num(0))

\* One call of calculateHargreavesETo.  The function has no throw statement:
\* every call returns a number.
CalculateHargreavesETo ==
    /\ formula = "none"
    /\ \E tMax \in {-30, -20, 10, 20, 30, 36}, tMin \in {-30, -20, 10, 20, 30, 36},
          lat \in {12552967, 12658602, 78000000}, date \in {26, 27, 172} :
        /\ formula' = "calculateHargreavesETo"
        /\ args' = [tMax |-> tMax, tMin |-> tMin, lat |-> lat, date |-> date]
        /\ returned' = Returned(calculateHargreavesETo(tMax, tMin, lat, date))
    /\ UNCHANGED outsideAgronomy

\* One call of calculateGDD, tBase given or left to its default of 10.
CalculateGDD ==
    /\ formula = "none"
    /\ \E tMax \in -5..40, tMin \in -5..40, tBase \in {0, 10, 15} :
        /\ formula' = "calculateGDD"
        /\ args' = [tMax |-> tMax, tMin |-> tMin, tBase |-> tBase]
        /\ returned' = Returned(calculateGDD(tMax, tMin, tBase))
    /\ UNCHANGED outsideAgronomy

\* One call of calculateVPD: a temperature of the table, in half degrees, and
\* a relative humidity in percent.
CalculateVPD ==
    /\ formula = "none"
    /\ \E temp2 \in -60..80, rh \in 0..100 :
        /\ formula' = "calculateVPD"
        /\ args' = [temp |-> temp2, rh |-> rh]
        /\ returned' = Returned(calculateVPD(temp2, rh))
    /\ UNCHANGED outsideAgronomy

NextAgronomy == CalculateGDD \/ CalculateVPD \/ CalculateHargreavesETo

------------------------------------------------------------------------------
(* Plot resolution: src/src/lib/plot-mapper.ts resolvePlotProfile and         *)
(* src/unnamed/part_014 resolvePlotId.  A string is the sequence of its       *)
(* characters; a Thai character is written by its code point.                 *)

\* String.prototype.includes
Includes(str, sub) ==
    \E i \in 0..(Len(str) - Len(sub)) : SubSeq(str, i + 1, i + Len(sub)) = sub

\* String.prototype.toLowerCase, on the capitals the inputs use
LowerChar(c) ==
    CASE c = "H" -> "h" [] c = "S" -> "s" [] c = "M" -> "m" [] c = "T" -> "t"
      [] c = "L" -> "l" [] c = "P" -> "p" [] c = "B" -> "b" [] OTHER -> c
LowerCase(str) == [i \in 1..Len(str) |-> LowerChar(str[i])]

\* String.prototype.trim
RECURSIVE TrimStart(_)
TrimStart(str) ==
    IF str # <<>> /\ Head(str) = " " THEN TrimStart(Tail(str)) ELSE str
RECURSIVE TrimEnd(_)
TrimEnd(str) ==
    IF str # <<>> /\ str[Len(str)] = " " THEN TrimEnd(SubSeq(str, 1, Len(str) - 1)) ELSE str
Trim(str) == TrimEnd(TrimStart(str))

\* the keywords of resolvePlotProfile, by the profile they select (lines 126-141)
HouseKeywords ==
    {<<"U+0E1A", "U+0E49", "U+0E32", "U+0E19">>, <<"h", "o", "u", "s", "e">>,
     <<"b", "a", "n">>}
TamarindKeywords ==
    {<<"U+0E21", "U+0E30", "U+0E02", "U+0E32", "U+0E21">>,
     <<"t", "a", "m", "a", "r", "i", "n", "d">>, <<"m", "a", "k", "h", "a", "m">>}
LowerKeywords ==
    {<<"U+0E25", "U+0E48", "U+0E32", "U+0E07">>, <<"l", "o", "w", "e", "r">>,
     <<"b", "o", "t", "t", "o", "m">>, <<"l", "a", "n", "g">>}
PramKeywords ==
    {<<"U+0E1E", "U+0E31", "U+0E19", "U+0E18", "U+0E38", "U+0E4C", "U+0E44", "U+0E21", "U+0E49">>,
     <<"p", "r", "a", "m">>, <<"n", "u", "r", "s", "e", "r", "y">>}

\* PLOT_PROFILES (plot-mapper.ts lines 47-100): the keys and their profiles
PLOT_PROFILES ==
    {<<<<"h", "o", "u", "s", "e">>, ProfileHouse>>,
     <<<<"t", "a", "m", "a", "r", "i", "n", "d">>, ProfileTamarind>>,
     <<<<"l", "o", "w", "e", "r">>, ProfileLower>>,
     <<<<"p", "r", "a", "m">>, ProfilePram>>}
DEFAULT_PROFILE == ProfileHouse

HasKey(table, key) == \E e \in table : e[1] = key
Lookup(table, key) == (CHOOSE e \in table : e[1] = key)[2]

\* resolvePlotProfile, with the return statement it leaves by:
\* 1 exact key, 2 keyword, 3 fallback (which also calls console.warn)
ResolveStep(profile, step) == [profile |-> profile, step |-> step]

resolvePlotProfile(name) ==
    LET normalized == Trim(LowerCase(name))
    IN  IF HasKey(PLOT_PROFILES, name)
        THEN ResolveStep(Lookup(PLOT_PROFILES, name), 1)
        ELSE IF \E kw \in HouseKeywords : Includes(normalized, kw)
        THEN ResolveStep(Lookup(PLOT_PROFILES, <<"h", "o", "u", "s", "e">>), 2)
        ELSE IF \E kw \in TamarindKeywords : Includes(normalized, kw)
        THEN ResolveStep(Lookup(PLOT_PROFILES, <<"t", "a", "m", "a", "r", "i", "n", "d">>), 2)
        ELSE IF \E kw \in LowerKeywords : Includes(normalized, kw)
        THEN ResolveStep(Lookup(PLOT_PROFILES, <<"l", "o", "w", "e", "r">>), 2)
        ELSE IF \E kw \in PramKeywords : Includes(normalized, kw)
        THEN ResolveStep(Lookup(PLOT_PROFILES, <<"p", "r", "a", "m">>), 2)
        ELSE ResolveStep(DEFAULT_PROFILE, 3)

\* the canonical plot ids
PlotId ==
    [suan_ban |-> <<"s", "u", "a", "n", "_", "b", "a", "n">>,
     suan_makham |-> <<"s", "u", "a", "n", "_", "m", "a", "k", "h", "a", "m">>,
     suan_lang |-> <<"s", "u", "a", "n", "_", "l", "a", "n", "g">>,
     plant_shop |-> <<"p", "l", "a", "n", "t", "_", "s", "h", "o", "p">>]

\* the mapping table of resolvePlotId (part_014 lines 296-324): the ids
\* themselves, the Thai aliases, the hyphenated and the legacy names
PlotIdMapping ==
    {<<<<"s", "u", "a", "n", "_", "b", "a", "n">>, PlotId.suan_ban>>,
     <<<<"s", "u", "a", "n", "_", "m", "a", "k", "h", "a", "m">>, PlotId.suan_makham>>,
     <<<<"s", "u", "a", "n", "_", "l", "a", "n", "g">>, PlotId.suan_lang>>,
     <<<<"p", "l", "a", "n", "t", "_", "s", "h", "o", "p">>, PlotId.plant_shop>>,
     <<<<"U+0E1A", "U+0E49", "U+0E32", "U+0E19">>, PlotId.suan_ban>>,
     <<<<"U+0E2A", "U+0E27", "U+0E19", "U+0E1A", "U+0E49", "U+0E32", "U+0E19">>,
       PlotId.suan_ban>>,
     <<<<"U+0E21", "U+0E30", "U+0E02", "U+0E32", "U+0E21">>, PlotId.suan_makham>>,
     <<<<"U+0E2A", "U+0E27", "U+0E19", "U+0E21", "U+0E30", "U+0E02", "U+0E32", "U+0E21">>,
       PlotId.suan_makham>>,
     <<<<"U+0E25", "U+0E48", "U+0E32", "U+0E07">>, PlotId.suan_lang>>,
     <<<<"U+0E2A", "U+0E27", "U+0E19", "U+0E25", "U+0E48", "U+0E32", "U+0E07">>,
       PlotId.suan_lang>>,
     <<<<"U+0E1E", "U+0E31", "U+0E19", "U+0E18", "U+0E38", "U+0E4C", "U+0E44", "U+0E21",
       "U+0E49">>,
       PlotId.plant_shop>>,
     <<<<"U+0E1B", "U+0E23", "U+0E31", "U+0E21", "U+0E1E", "U+0E31", "U+0E19", "U+0E18",
       "U+0E38", "U+0E4C", "U+0E44", "U+0E21", "U+0E49">>,
       PlotId.plant_shop>>,
     <<<<"s", "u", "a", "n", "-", "b", "a", "n">>, PlotId.suan_ban>>,
     <<<<"s", "u", "a", "n", "-", "m", "a", "k", "h", "a", "m">>, PlotId.suan_makham>>,
     <<<<"s", "u", "a", "n", "-", "l", "a", "n", "g">>, PlotId.suan_lang>>,
     <<<<"p", "l", "a", "n", "t", "-", "s", "h", "o", "p">>, PlotId.plant_shop>>,
     <<<<"h", "o", "u", "s", "e">>, PlotId.suan_ban>>,
     <<<<"t", "a", "m", "a", "r", "i", "n", "d">>, PlotId.suan_makham>>,
     <<<<"l", "o", "w", "e", "r">>, PlotId.suan_lang>>,
     <<<<"p", "r", "a", "m">>, PlotId.plant_shop>>}

\* resolvePlotId (part_014 lines 293-327): mapping[slug] || null
resolvePlotId(input) ==
    LET slug == Trim(LowerCase(input))
    IN  IF HasKey(PlotIdMapping, slug) THEN <<Lookup(PlotIdMapping, slug)>> ELSE <<>>

\* the names given to the resolvers: a word, alone or inside a longer name
PlotNames ==
    {p \o c \o x :
        p \in {<<>>, <<" ">>, <<"U+0E2A", "U+0E27", "U+0E19">>, <<"s", "u", "a", "n", "_">>,
               <<"s", "u", "a", "n", "-">>},
        c \in {<<"h", "o", "u", "s", "e">>, <<"H", "o", "u", "s", "e">>, <<"b", "a", "n">>,
               <<"t", "a", "m", "a", "r", "i", "n", "d">>, <<"m", "a", "k", "h", "a", "m">>,
               <<"l", "o", "w", "e", "r">>, <<"b", "o", "t", "t", "o", "m">>,
               <<"l", "a", "n", "g">>, <<"p", "r", "a", "m">>,
               <<"n", "u", "r", "s", "e", "r", "y">>,
               <<"U+0E1A", "U+0E49", "U+0E32", "U+0E19">>,
               <<"U+0E21", "U+0E30", "U+0E02", "U+0E32", "U+0E21">>,
               <<"U+0E25", "U+0E48", "U+0E32", "U+0E07">>,
               <<"U+0E1E", "U+0E31", "U+0E19", "U+0E18", "U+0E38", "U+0E4C", "U+0E44", "U+0E21", "U+0E49">>,
               <<"p", "l", "a", "n", "t", "_", "s", "h", "o", "p">>, <<"t", "m", "1">>, <<>>},
        x \in {<<>>, <<" ">>, <<"2">>}}

NoProfile == [name_th |-> ""]

InitResolver ==
    /\ resolver = "none"
    /\ inputName = <<>>
    /\ resolvedProfile = NoProfile
    /\ matchedBy = 0
    /\ resolvedPlotId = <<>>
    /\ warnings = 0

ResolvePlotProfile ==
    /\ resolver = "none"
    /\ \E name \in PlotNames :
        LET r == resolvePlotProfile(name)
        IN  /\ resolver' = "resolvePlotProfile"
            /\ inputName' = name
            /\ resolvedProfile' = r.profile
            /\ matchedBy' = r.step
            /\ warnings' = IF r.step = 3 THEN warnings + 1 ELSE warnings
    /\ UNCHANGED <<resolvedPlotId, outsideResolver>>

ResolvePlotId ==
    /\ resolver = "none"
    /\ \E name \in PlotNames :
        /\ resolver' = "resolvePlotId"
        /\ inputName' = name
        /\ resolvedPlotId' = resolvePlotId(name)
    /\ UNCHANGED <<resolvedProfile, matchedBy, warnings, outsideResolver>>

NextResolver ==
    \/ ResolvePlotProfile
    \/ ResolvePlotId

------------------------------------------------------------------------------
(* Report pipeline: src/unnamed/part_014 loadSystemContext.                   *)
(* A JavaScript object used as a dictionary is the sequence of its entries   *)
(* [key, value] in insertion order; a date is its day of the year.           *)

Range(xs) == {xs[i] : i \in 1..Len(xs)}
Keys(obj) == [i \in 1..Len(obj) |-> obj[i].key]
HasEntry(obj, key) == \E i \in 1..Len(obj) : obj[i].key = key
\* obj[key] || dflt
EntryOr(obj, key, dflt) ==
    IF HasEntry(obj, key) THEN obj[CHOOSE i \in 1..Len(obj) : obj[i].key = key].value
    ELSE dflt
\* obj[key] = value
SetEntry(obj, key, value) ==
    IF HasEntry(obj, key)
    THEN LET at == CHOOSE i \in 1..Len(obj) : obj[i].key = key
         IN  SubSeq(obj, 1, at - 1) \o <<[key |-> key, value |-> value]>>
                 \o SubSeq(obj, at + 1, Len(obj))
    ELSE Append(obj, [key |-> key, value |-> value])

\* resolvePlotId(x) || y
ResolvedOr(name, dflt) ==
    LET id == resolvePlotId(name) IN IF id # <<>> THEN id[1] ELSE dflt

\* new Date(): the time of the run, day 26 of the year at 09:00; Now.day is
\* its day
Now == [day |-> 26, hour |-> 9]

\* lines 55-71: forecastsByLocation, rows grouped by resolved plot, the first
\* row of each date kept
RECURSIVE GroupForecasts(_, _, _)
GroupForecasts(rows, requested, byLocation) ==
    IF rows = <<>> THEN byLocation
    ELSE LET row == Head(rows)
             locId == ResolvedOr(row.location_id, row.location_id)
             sofar == EntryOr(byLocation, locId, <<>>)
             exists == \E i \in 1..Len(sofar) : sofar[i].forecast_date = row.forecast_date
         IN  IF requested # <<>> /\ locId \notin Range(requested)
             THEN GroupForecasts(Tail(rows), requested, byLocation)
             ELSE GroupForecasts(Tail(rows), requested,
                     SetEntry(byLocation, locId,
                              IF exists THEN sofar ELSE Append(sofar, row)))

\* lines 83-101: logsByLocation, at most 5 logs per plot.  The loop over logs
\* is folded by halves, the first half before the second, and each partial
\* result is evaluated (its length taken) before it is passed on.
RECURSIVE GroupLogs(_, _, _)
GroupLogs(logs, requested, byLocation) ==
    IF logs = <<>> THEN byLocation
    ELSE IF Len(logs) > 1
    THEN LET half == Len(logs) \div 2
             first == GroupLogs(SubSeq(logs, 1, half), requested, byLocation)
         IN  IF Len(first) >= 0
             THEN GroupLogs(SubSeq(logs, half + 1, Len(logs)), requested, first)
             ELSE first
    ELSE LET log == logs[1]
             unknown == <<"u", "n", "k", "n", "o", "w", "n">>
             plotId == ResolvedOr(log.plot_name, unknown)
             sofar == EntryOr(byLocation, plotId, <<>>)
         IN  IF plotId = unknown \/ (requested # <<>> /\ plotId \notin Range(requested))
             THEN byLocation
             ELSE SetEntry(byLocation, plotId,
                     IF Len(sofar) < 5
                     THEN Append(sofar, [id |-> log.id, activity_date |-> log.created_at,
                                         activity_type |-> log.activity_type,
                                         plot_id |-> plotId, notes |-> log.notes])
                     ELSE sofar)

\* lines 114-124: pendingByLocation
RECURSIVE GroupPending(_, _, _)
GroupPending(tasks, requested, byLocation) ==
    IF tasks = <<>> THEN byLocation
    ELSE LET task == Head(tasks)
             unknown == <<"u", "n", "k", "n", "o", "w", "n">>
             plotId == ResolvedOr(task.plot_name, unknown)
         IN  IF plotId = unknown \/ (requested # <<>> /\ plotId \notin Range(requested))
             THEN GroupPending(Tail(tasks), requested, byLocation)
             ELSE GroupPending(Tail(tasks), requested,
                     SetEntry(byLocation, plotId,
                              Append(EntryOr(byLocation, plotId, <<>>), task)))

\* requestedPlots.filter(p => !foundPlots.includes(p))
RECURSIVE Missing(_, _)
Missing(requested, found) ==
    IF requested = <<>> THEN <<>>
    ELSE IF Head(requested) \in Range(found) THEN Missing(Tail(requested), found)
    ELSE <<Head(requested)>> \o Missing(Tail(requested), found)

Note(text, plots) == [text |-> text, plots |-> plots]

\* lines 128-154: the gap analysis of loadSystemContext
LoaderGapAnalysis(forecasts, requested, byLocation) ==
    LET missing == Missing(requested, Keys(byLocation))
    IN  [integrity |-> IF forecasts # <<>> THEN "fresh" ELSE "stale",
         last_update_hours |->
            IF forecasts # <<>> THEN 24 * (Now.day - forecasts[1].forecast_date) + Now.hour
            ELSE 0,
         missing_plots |-> IF requested # <<>> THEN missing ELSE <<>>,
         external_search_needed |-> forecasts = <<>>,
         notes |-> (IF forecasts = <<>>
                    THEN <<Note("No forecast data found for the requested period.", <<>>)>>
                    ELSE <<>>)
                   \o (IF requested # <<>> /\ missing # <<>>
                       THEN <<Note("Missing forecast for plots", missing)>>
                       ELSE <<>>)]

\* new Set([...a, ...b, ...c]) as an array: the elements in first-seen order
RECURSIVE Distinct(_, _)
Distinct(xs, seen) ==
    IF xs = <<>> THEN seen
    ELSE Distinct(Tail(xs), IF Head(xs) \in Range(seen) THEN seen ELSE Append(seen, Head(xs)))

\* ProfileManager.getProfile (part_013 lines 137-140): profiles[slug] || null
fetchPlotProfile(profiles, slug) ==
    IF HasKey(profiles, slug) THEN <<Lookup(profiles, slug)>> ELSE <<>>

\* lines 198-215: one enriched day; vpd, gdd and eto are carried in hundredths,
\* which Number(x.toFixed(2)) leaves as they are
EnrichDay(f, profile) ==
    [date |-> f.forecast_date, tempMax |-> f.tc_max, tempMin |-> f.tc_min,
     humidity |-> f.rh_percent, rainProb |-> f.rain_prob_percent, rainMm |-> f.rain_mm,
     vpd |-> calculateVPD(f.tc_max + f.tc_min, f.rh_percent),
     gdd |-> calculateGDD(f.tc_max, f.tc_min, 10),
     eto |-> calculateHargreavesETo(f.tc_max, f.tc_min, profile.lat, f.forecast_date)]

\* enrichedForecasts.find(f => f.date === Now.day) || enrichedForecasts[0] || zeros
CurrentMet(enriched) ==
    IF \E i \in 1..Len(enriched) : enriched[i].date = Now.day
    THEN enriched[CHOOSE i \in 1..Len(enriched) :
                    /\ enriched[i].date = Now.day
                    /\ \A j \in 1..(i - 1) : enriched[j].date # Now.day]
    ELSE IF enriched # <<>> THEN enriched[1]
    ELSE [ZeroDay EXCEPT !.date = Now.day]

\* lines 230-240: the recent and the pending activities of a plot
PlotLog(l) == [date |-> l.activity_date, type |-> l.activity_type, notes |-> l.notes]
PlotTask(t) ==
    [date |-> IF t.next_action.date # <<>> THEN t.next_action.date[1] ELSE t.created_at,
     type |-> IF t.next_action.action # <<>> THEN t.next_action.action[1]
              ELSE t.activity_type,
     notes |-> [notes |-> t.notes, pending_id |-> t.id]]

\* lines 177-270: the SITREP of one target plot, <<>> when the plot is skipped
\* because no profile was found
PlotSitrep(locId, byLocation, logsBy, pendingBy, profiles) ==
    LET own == EntryOr(byLocation, locId, <<>>)
        locForecasts == IF own = <<>> /\ locId = PlotId.plant_shop
                        THEN EntryOr(byLocation, PlotId.suan_ban, <<>>)
                        ELSE own
        profile == fetchPlotProfile(profiles, locId)
    IN  IF profile = <<>> THEN <<>>
        ELSE LET enriched == [i \in 1..Len(locForecasts) |->
                                 EnrichDay(locForecasts[i], profile[1])]
                 gddSum == SeqSum([i \in 1..Len(enriched) |-> enriched[i].gdd.v])
                 logs == EntryOr(logsBy, locId, <<>>)
                 tasks == EntryOr(pendingBy, locId, <<>>)
             IN  <<[timestamp |-> Now,
                    plot |-> [id |-> locId, profile |-> profile[1]],
                    environment |-> [history |-> <<>>, current |-> CurrentMet(enriched),
                                     forecast |-> enriched],
                    activities |-> [recent |-> [i \in 1..Len(logs) |-> PlotLog(logs[i])],
                                    planned |-> [i \in 1..Len(tasks) |-> PlotTask(tasks[i])],
                                    gapAnalysis |-> <<>>],
                    insight |-> [status |-> "nominal",
                                 headlines |->
                                    IF gddSum > 3000
                                    THEN <<[text |-> "High Growth Expected (GDD)",
                                            value |-> RoundDiv(gddSum, 10)]>>
                                    ELSE <<>>]]>>

RECURSIVE BuildPlots(_, _, _, _, _, _)
BuildPlots(targets, byLocation, logsBy, pendingBy, profiles, plots) ==
    IF targets = <<>> THEN plots
    ELSE LET st == PlotSitrep(Head(targets), byLocation, logsBy, pendingBy, profiles)
         IN  BuildPlots(Tail(targets), byLocation, logsBy, pendingBy, profiles,
                        IF st = <<>> THEN plots ELSE SetEntry(plots, Head(targets), st[1]))

HorizonDays == 3

\* loadSystemContext, after the forecast query succeeded
loadSystemContext(forecasts, requested, logs, tasks, profiles) ==
    LET byLocation == GroupForecasts(forecasts, requested, <<>>)
        logsBy == GroupLogs(logs, requested, <<>>)
        pendingBy == GroupPending(tasks, requested, <<>>)
        targetPlots == IF requested # <<>> THEN requested
                       ELSE Distinct(Keys(byLocation) \o Keys(logsBy) \o Keys(pendingBy), <<>>)
    IN  [timestamp |-> Now,
         meta |-> [horizon_days |-> HorizonDays,
                   focus |-> IF requested # <<>> THEN requested ELSE <<<<"a", "l", "l">>>>],
         gap_analysis |-> LoaderGapAnalysis(forecasts, requested, byLocation),
         plots |-> BuildPlots(targetPlots, byLocation, logsBy, pendingBy, profiles, <<>>)]

------------------------------------------------------------------------------
(* Report pipeline, script variant: src/src/scripts/synthesize-insights.ts    *)

\* lines 233-245: the notes on missing or old activity logs
RECURSIVE LogNotes(_, _)
LogNotes(plotsToCheck, logsBy) ==
    IF plotsToCheck = <<>> THEN <<>>
    ELSE LET pid == Head(plotsToCheck)
             pLogs == EntryOr(logsBy, pid, <<>>)
             here == IF pLogs = <<>>
                     THEN <<Note("No recent activity logs (History Gap).", <<pid>>)>>
                     ELSE IF 24 * (Now.day - pLogs[1].activity_date) + Now.hour > 24 * 7
                     THEN <<Note("Activity logs are older than 7 days.", <<pid>>)>>
                     ELSE <<>>
         IN  here \o LogNotes(Tail(plotsToCheck), logsBy)

\* lines 200-248: the gap analysis of the script, with the downgrade to stale
ScriptGapAnalysis(forecasts, requested, byLocation, logsBy) ==
    LET base == LoaderGapAnalysis(forecasts, requested, byLocation)
        notes == base.notes
                 \o LogNotes(IF requested # <<>> THEN requested ELSE Keys(byLocation), logsBy)
    IN  [base EXCEPT !.notes = notes,
                     !.integrity = IF (base.missing_plots # <<>> \/ notes # <<>>)
                                      /\ base.integrity = "fresh"
                                   THEN "stale" ELSE base.integrity]

\* lines 275-327: the entry of one target plot; resolvePlotProfile returns the
\* default profile when the id is not known
ScriptPlot(locId, byLocation, logsBy, pendingBy) ==
    LET locForecasts == EntryOr(byLocation, locId, <<>>)
        profile == resolvePlotProfile(locId).profile
        logs == EntryOr(logsBy, locId, <<>>)
        tasks == EntryOr(pendingBy, locId, <<>>)
    IN  [profile |-> [stage |-> profile.stage, soil |-> profile.soil,
                      personality |-> [notes_of |-> profile.name_th]],
         metrics |-> [gdd_accumulated |->
                        SeqSum([i \in 1..Len(locForecasts) |->
                                   calculateGDD(locForecasts[i].tc_max,
                                                locForecasts[i].tc_min, 10).v])],
         forecasts |-> [i \in 1..Len(locForecasts) |->
                          LET f == locForecasts[i]
                          IN  [date |-> f.forecast_date, temp_max |-> f.tc_max,
                               temp_min |-> f.tc_min, rh |-> f.rh_percent,
                               rain_prob |-> f.rain_prob_percent,
                               vpd |-> calculateVPD(f.tc_max + f.tc_min, f.rh_percent),
                               eto |-> calculateHargreavesETo(f.tc_max, f.tc_min,
                                                              profile.lat, f.forecast_date)]],
         recent_activities |-> [i \in 1..Len(logs) |->
                                  [date |-> logs[i].activity_date,
                                   action |-> logs[i].activity_type,
                                   notes |-> logs[i].notes]],
         pending_tasks |-> [i \in 1..Len(tasks) |->
                              LET t == tasks[i]
                              IN  [id |-> t.id,
                                   action |-> IF t.next_action.action # <<>>
                                              THEN t.next_action.action[1]
                                              ELSE t.activity_type,
                                   due_date |-> IF t.next_action.date # <<>>
                                                THEN t.next_action.date[1] ELSE t.created_at,
                                   notes |-> t.notes]]]

RECURSIVE ScriptPlots(_, _, _, _, _)
ScriptPlots(targets, byLocation, logsBy, pendingBy, plots) ==
    IF targets = <<>> THEN plots
    ELSE ScriptPlots(Tail(targets), byLocation, logsBy, pendingBy,
                     SetEntry(plots, Head(targets),
                              ScriptPlot(Head(targets), byLocation, logsBy, pendingBy)))

\* runSynthesis of synthesize-insights.ts, after the forecast query succeeded
synthesizeInsights(forecasts, requested, logs, tasks) ==
    LET byLocation == GroupForecasts(forecasts, requested, <<>>)
        logsBy == GroupLogs(logs, requested, <<>>)
        pendingBy == GroupPending(tasks, requested, <<>>)
        targetPlots == IF requested # <<>> THEN requested
                       ELSE Distinct(Keys(byLocation) \o Keys(logsBy) \o Keys(pendingBy), <<>>)
    IN  [timestamp |-> Now,
         meta |-> [horizon_days |-> HorizonDays,
                   focus |-> IF requested # <<>> THEN requested ELSE <<<<"a", "l", "l">>>>],
         gap_analysis |-> ScriptGapAnalysis(forecasts, requested, byLocation, logsBy),
         plots |-> ScriptPlots(targetPlots, byLocation, logsBy, pendingBy, <<>>)]

------------------------------------------------------------------------------
(* Insight synthesis: src/unnamed/part_001 runSynthesis                       *)

\* forecast_date as the database holds it: the text YYYY-MM-DD of a day of
\* January 2026
DateText(day) ==
    LET Digits == <<"0", "1", "2", "3", "4", "5", "6", "7", "8", "9">>
    IN  <<"2", "0", "2", "6", "-", "0", "1", "-",
          Digits[(day \div 10) + 1], Digits[(day % 10) + 1]>>

\* lines 31-37: uniqueMap.set(`${location_id}_${forecast_date}`, row) for every row
RECURSIVE UniqueMap(_, _)
UniqueMap(rows, map) ==
    IF rows = <<>> THEN map
    ELSE LET row == Head(rows)
             key == row.location_id \o <<"_">> \o DateText(row.forecast_date)
         IN  UniqueMap(Tail(rows), SetEntry(map, key, row))

\* lines 42-64: the insights of the de-duplicated forecasts, in order
RECURSIVE SynthesisInsights(_)
SynthesisInsights(map) ==
    IF map = <<>> THEN <<>>
    ELSE LET f == map[1].value
             ctx == resolvePlotProfile(f.location_id).profile
         IN  analyzeIrrigation(f, ctx) \o analyzeDisease(f, ctx)
                \o analyzePhysiology(f, ctx) \o analyzePest(f, ctx)
                \o SynthesisInsights(Tail(map))

------------------------------------------------------------------------------
(* Inputs of the pipeline                                                    *)

MaxRows == 2

\* weather_forecasts rows: a known plot, an alias of another and an unknown
\* location, each with a normal reading on two dates; a second, different
\* reading for one (plot, date); two readings with tc_min above tc_max; a
\* humid day without rain
Reading ==
    [normal   |-> [tc_max |-> 33, tc_min |-> 24, rh_percent |-> 60,
                   rain_prob_percent |-> 20, rain_mm |-> 5, swdown |-> 700],
     dry      |-> [tc_max |-> 36, tc_min |-> 20, rh_percent |-> 45,
                   rain_prob_percent |-> 0, rain_mm |-> 0, swdown |-> 200],
     inverted |-> [tc_max |-> 24, tc_min |-> 33, rh_percent |-> 60,
                   rain_prob_percent |-> 20, rain_mm |-> 0, swdown |-> 400],
     humid    |-> [tc_max |-> 31, tc_min |-> 25, rh_percent |-> 95,
                   rain_prob_percent |-> 40, rain_mm |-> 0, swdown |-> 400]]
ForecastRow(loc, date, r) ==
    [location_id |-> loc, forecast_date |-> date, tc_max |-> r.tc_max, tc_min |-> r.tc_min,
     rh_percent |-> r.rh_percent, rain_prob_percent |-> r.rain_prob_percent,
     rain_mm |-> r.rain_mm, swdown |-> r.swdown]
ForecastRows ==
    {ForecastRow(loc, date, Reading.normal) :
        loc \in {PlotId.suan_ban, <<"s", "u", "a", "n", "-", "m", "a", "k", "h", "a", "m">>,
                <<"t", "m", "1">>},
        date \in {26, 27}}
    \cup {ForecastRow(PlotId.suan_ban, 26, Reading.dry),
          ForecastRow(<<"s", "u", "a", "n", "-", "m", "a", "k", "h", "a", "m">>, 26,
                  Reading.inverted),
          ForecastRow(<<"t", "m", "1">>, 27, Reading.inverted),
          ForecastRow(PlotId.suan_ban, 27, Reading.humid)}

\* the query orders the rows by forecast_date, ascending
ForecastResults ==
    {rows \in UNION {[1..n -> ForecastRows] : n \in 0..MaxRows} :
        \A i \in 1..(Len(rows) - 1) : rows[i].forecast_date <= rows[i + 1].forecast_date}

RequestOptions == {<<>>, <<PlotId.suan_makham>>, <<PlotId.plant_shop, PlotId.suan_ban>>}

\* .limit(100) of the recent-activity query (part_014 line 78)
LogQueryLimit == 100

\* lines 74-78: the recent-activity query on a table whose rows are given in
\* the order of the query, created_at descending
RecentLogsQuery(table) ==
    SubSeq(table, 1, IF Len(table) < LogQueryLimit THEN Len(table) ELSE LogQueryLimit)

\* activity_logs rows, newest first: a log of a known plot, a log of an unknown
\* one, and a pending task; a busy season of 100 logs of one plot that are
\* all newer than the one log of another plot
ActivityResults ==
    LET logHouse ==
            [id |-> 7, created_at |-> 25, activity_type |-> "watering",
             plot_name |-> <<"h", "o", "u", "s", "e">>, notes |-> "morning round"]
        logUnknown ==
            [id |-> 5, created_at |-> 10, activity_type |-> "pruning",
             plot_name |-> <<"t", "m", "1">>, notes |-> "old log"]
        taskLang ==
            [id |-> 9, created_at |-> 20, activity_type |-> "fertilizing",
             plot_name |-> <<"s", "u", "a", "n", "-", "l", "a", "n", "g">>,
             notes |-> "second dose",
             next_action |-> [status |-> "pending", action |-> <<"fertilize">>,
                              date |-> <<>>]]
        logLang(i) ==
            [id |-> 200 - i, created_at |-> 25, activity_type |-> "watering",
             plot_name |-> <<"s", "u", "a", "n", "-", "l", "a", "n", "g">>,
             notes |-> "drip line"]
        logOld ==
            [id |-> 3, created_at |-> 12, activity_type |-> "pruning",
             plot_name |-> <<"h", "o", "u", "s", "e">>, notes |-> "winter cut"]
    IN  {[logs |-> <<>>, pending |-> <<>>],
         [logs |-> <<logHouse, logUnknown>>, pending |-> <<>>],
         [logs |-> <<logHouse, logUnknown>>, pending |-> <<taskLang>>],
         [logs |-> [i \in 1..100 |-> logLang(i)] \o <<logOld>>, pending |-> <<>>]}

\* FALLBACK_PROFILES (part_013 lines 21-78) and a plot_profiles table keyed by
\* the canonical ids
FALLBACK_PROFILES ==
    {<<<<"h", "o", "u", "s", "e">>, ProfileHouse>>,
     <<<<"t", "a", "m", "a", "r", "i", "n", "d">>, ProfileTamarind>>,
     <<<<"l", "o", "w", "e", "r">>, ProfileLower>>,
     <<<<"p", "r", "a", "m">>, ProfilePram>>}
CanonicalProfiles ==
    {<<PlotId.suan_ban, ProfileHouse>>, <<PlotId.suan_makham, ProfileTamarind>>,
     <<PlotId.suan_lang, ProfileLower>>, <<PlotId.plant_shop, ProfilePram>>}
ProfileTables == {FALLBACK_PROFILES, CanonicalProfiles}

NoReport == [plots |-> <<>>]
Completed(report) == [threw |-> FALSE, report |-> report]
Aborted == [threw |-> TRUE, report |-> NoReport]

InitPipeline ==
    /\ pipeline = "none"
    /\ forecastsRaw = <<>>
    /\ weatherError = FALSE
    /\ requestedPlots = <<>>
    /\ activityLogs = <<>>
    /\ pendingLogs = <<>>
    /\ profileTable = {}
    /\ forecastsUsed = <<>>
    /\ outcome = Completed(NoReport)
    /\ insights = <<>>

\* One invocation of loadSystemContext: it throws when the forecast query
\* failed and returns the report otherwise.
LoadSystemContext ==
    /\ pipeline = "none"
    /\ pipeline' = "loadSystemContext"
    /\ \E requested \in RequestOptions, acts \in ActivityResults, profiles \in ProfileTables :
        /\ requestedPlots' = requested
        /\ activityLogs' = acts.logs
        /\ pendingLogs' = acts.pending
        /\ profileTable' = profiles
        /\ \/ /\ weatherError' = TRUE
              /\ forecastsRaw' = <<>>
              /\ forecastsUsed' = <<>>
              /\ outcome' = Aborted
           \/ \E rows \in ForecastResults :
                /\ weatherError' = FALSE
                /\ forecastsRaw' = rows
                /\ forecastsUsed' = GroupForecasts(rows, requested, <<>>)
                /\ outcome' = Completed(loadSystemContext(rows, requested,
                                                          RecentLogsQuery(acts.logs),
                                                          acts.pending, profiles))
    /\ UNCHANGED <<insights, outsidePipeline>>

\* One run of the synthesize-insights script: process.exit(1) when the forecast
\* query failed, the SITREP printed otherwise.
SynthesizeInsights ==
    /\ pipeline = "none"
    /\ pipeline' = "synthesizeInsights"
    /\ \E requested \in RequestOptions, acts \in ActivityResults :
        /\ requestedPlots' = requested
        /\ activityLogs' = acts.logs
        /\ pendingLogs' = acts.pending
        /\ \/ /\ weatherError' = TRUE
              /\ forecastsRaw' = <<>>
              /\ forecastsUsed' = <<>>
              /\ outcome' = Aborted
           \/ \E rows \in ForecastResults :
                /\ weatherError' = FALSE
                /\ forecastsRaw' = rows
                /\ forecastsUsed' = GroupForecasts(rows, requested, <<>>)
                /\ outcome' = Completed(synthesizeInsights(rows, requested,
                                                           RecentLogsQuery(acts.logs),
                                                           acts.pending))
    /\ UNCHANGED <<profileTable, insights, outsidePipeline>>

\* One run of runSynthesis (part_001): it returns early on a query error or an
\* empty result, and otherwise reports the insights of the de-duplicated rows.
RunSynthesis ==
    /\ pipeline = "none"
    /\ pipeline' = "runSynthesis"
    /\ \/ /\ weatherError' = TRUE
          /\ forecastsRaw' = <<>>
          /\ forecastsUsed' = <<>>
          /\ insights' = <<>>
       \/ \E rows \in ForecastResults :
            /\ weatherError' = FALSE
            /\ forecastsRaw' = rows
            /\ forecastsUsed' = IF rows = <<>> THEN <<>> ELSE UniqueMap(rows, <<>>)
            /\ insights' = IF rows = <<>> THEN <<>>
                           ELSE SynthesisInsights(UniqueMap(rows, <<>>))
    /\ UNCHANGED <<requestedPlots, activityLogs, pendingLogs, profileTable, outcome,
                   outsidePipeline>>

NextPipeline ==
    \/ LoadSystemContext
    \/ SynthesizeInsights
    \/ RunSynthesis

------------------------------------------------------------------------------
(* Command-line scripts over the activity_logs table: the add command        *)
(* (src/unnamed/part_003) and the sync script (src/src/scripts/sync.ts).      *)
(* created_at is [day, minute] in local time; a Markdown file is the record  *)
(* of its title, date, total and sections, each section the entries in order.*)

\* most rows the add command inserts in one behaviour
MaxLogs == 3

\* the local day the scripts run on
Today == Now.day

\* part_003 line 44
validTypes == {"watering", "spraying", "monitoring", "fertilizing", "pruning", "other"}

\* part_003 lines 37-81 without the gate on the plot: the raw plot name is
\* inserted when no id resolves
addInsertDataNoPlotGate(parsed) ==
    IF parsed.type = <<>> \/ parsed.type[1] = "" \/ parsed.plot = <<>> \/ parsed.plot[1] = <<>>
    THEN <<>>
    ELSE IF parsed.type[1] \notin validTypes
    THEN <<>>
    ELSE <<[activity_type |-> parsed.type[1],
            plot_name |-> ResolvedOr(parsed.plot[1], parsed.plot[1]),
            notes |-> IF parsed.notes # <<>> THEN parsed.notes[1] ELSE "",
            created_at |-> parsed.date]>>

\* part_003 lines 37-81: <<>> when the command leaves by process.exit(1),
\* insertData otherwise (created_at only when --date is given); parsed is
\* parseArgs' values
addInsertData(parsed) ==
    IF parsed.type = <<>> \/ parsed.type[1] = "" \/ parsed.plot = <<>> \/ parsed.plot[1] = <<>>
    THEN <<>>
    ELSE IF parsed.type[1] \notin validTypes
    THEN <<>>
    ELSE LET plotName == resolvePlotId(parsed.plot[1])
         IN  IF plotName = <<>>
             THEN <<>>
             ELSE <<[activity_type |-> parsed.type[1],
                     plot_name |-> plotName[1],
                     notes |-> IF parsed.notes # <<>> THEN parsed.notes[1] ELSE "",
                     created_at |-> parsed.date]>>

\* the row the table stores for insertData: the serial id, and created_at from
\* new Date(values.date).toISOString() (midnight UTC, 07:00 local) or, by
\* default, the time of the insertion (one minute later with every row)
InsertedRow(insertData, id) ==
    [id |-> id,
     created_at |-> IF insertData.created_at # <<>>
                    THEN [day |-> insertData.created_at[1], minute |-> 420]
                    ELSE [day |-> Today, minute |-> 60 * Now.hour + id],
     activity_type |-> insertData.activity_type,
     plot_name |-> insertData.plot_name,
     notes |-> insertData.notes]

\* sync.ts lines 31-36: the rows created today, by ascending created_at
RECURSIVE OrderByCreated(_, _)
OrderByCreated(rows, sorted) ==
    IF rows = <<>> THEN sorted
    ELSE LET row == Head(rows)
             before == SelectSeq(sorted, LAMBDA r : r.created_at.minute <= row.created_at.minute)
             after == SelectSeq(sorted, LAMBDA r : r.created_at.minute > row.created_at.minute)
         IN  OrderByCreated(Tail(rows), before \o <<row>> \o after)
TodayLogs(table) ==
    OrderByCreated(SelectSeq(table, LAMBDA r : r.created_at.day = Today), <<>>)

\* sync.ts lines 55-63: logsByPlot
RECURSIVE LogsByPlot(_, _)
LogsByPlot(logs, byPlot) ==
    IF logs = <<>> THEN byPlot
    ELSE LET log == Head(logs)
             plot == IF log.plot_name # <<>> THEN log.plot_name
                     ELSE <<"u", "n", "k", "n", "o", "w", "n", "-", "p", "l", "o", "t">>
         IN  LogsByPlot(Tail(logs),
                        SetEntry(byPlot, plot, Append(EntryOr(byPlot, plot, <<>>), log)))

\* sync.ts lines 143-147: groupedLogs
RECURSIVE GroupedLogs(_, _)
GroupedLogs(logs, grouped) ==
    IF logs = <<>> THEN grouped
    ELSE LET log == Head(logs)
         IN  GroupedLogs(Tail(logs),
                         SetEntry(grouped, log.activity_type,
                                  Append(EntryOr(grouped, log.activity_type, <<>>), log)))

\* sync.ts lines 134-200: the Markdown of one plot's day; rows of the add
\* command have no details, tree_id or next_action
generateMarkdown(date, plotName, logs) ==
    LET groupedLogs == GroupedLogs(logs, <<>>)
    IN  [title |-> plotName, date |-> date, total |-> Len(logs),
         sections |-> [i \in 1..Len(groupedLogs) |->
                         [key |-> groupedLogs[i].key,
                          value |-> [k \in 1..Len(groupedLogs[i].value) |->
                                       LET log == groupedLogs[i].value[k]
                                       IN  [time |-> log.created_at.minute,
                                            notes |-> IF log.notes # "" THEN log.notes
                                                      ELSE "No notes"]]]]]

\* sync.ts lines 74-76: the file of a plot's day
LogFileName(date, plotName) ==
    LET risky == {"/", " ", "?", "%", "*", ":", "|", "\"", "<", ">"}
        safePlotName == LowerCase([i \in 1..Len(plotName) |->
                                     IF plotName[i] \in risky THEN "-" ELSE plotName[i]])
    IN  DateText(date) \o <<"_">> \o safePlotName \o <<".", "m", "d">>

\* sync.ts lines 72-129: the loop over logsByPlot; failing holds the files
\* whose writeFileSync throws
RECURSIVE WriteLogs(_, _, _)
WriteLogs(logsByPlot, files, failing) ==
    IF logsByPlot = <<>> THEN files
    ELSE LET plotName == Head(logsByPlot).key
             filename == LogFileName(Today, plotName)
         IN  WriteLogs(Tail(logsByPlot),
                       IF filename \in failing THEN files
                       ELSE SetEntry(files, filename,
                                     generateMarkdown(Today, plotName, Head(logsByPlot).value)),
                       failing)

\* the files sync's main leaves after the query succeeded
SyncedFiles(table, files, failing) ==
    WriteLogs(LogsByPlot(TodayLogs(table), <<>>), files, failing)

\* the files a run of main may fail to write
TodayFiles(table) ==
    {LogFileName(Today, table[i].plot_name) :
        i \in {k \in 1..Len(table) : table[k].created_at.day = Today}}

\* parseArgs' values of the command lines run
AddArgs ==
    LET Args(type, plot, notes, date) ==
            [type |-> type, plot |-> plot, notes |-> notes, date |-> date]
    IN  {Args(<<>>, <<<<"h", "o", "u", "s", "e">>>>, <<"drip line">>, <<>>),
         Args(<<"">>, <<PlotId.suan_lang>>, <<>>, <<>>),
         Args(<<"watering">>, <<>>, <<>>, <<>>),
         Args(<<"harvest">>, <<PlotId.suan_lang>>, <<"first fruit">>, <<>>),
         Args(<<"watering">>, <<<<"g", "a", "r", "d", "e", "n">>>>, <<"drip line">>, <<>>),
         Args(<<"watering">>, <<<<"H", "o", "u", "s", "e">>>>, <<"drip line">>, <<>>),
         Args(<<"pruning">>, <<PlotId.suan_ban>>, <<>>, <<>>),
         Args(<<"pruning">>, <<PlotId.suan_lang>>, <<"winter cut">>, <<Today - 1>>)}

NoArgs == [type |-> <<>>, plot |-> <<>>, notes |-> <<>>, date |-> <<>>]

InitScripts ==
    /\ script = "none"
    /\ values = NoArgs
    /\ exitCode = 0
    /\ activityTable = <<>>
    /\ nextLogId = 1
    /\ farmingLogs = <<>>

\* One run of the add command (part_003 main): validation, the insert, the
\* automatic sync in a child process (its failure is caught) and the weather
\* context, which is only printed.
AddCommand ==
    /\ script' = "add"
    /\ \E v \in AddArgs :
        /\ values' = v
        /\ LET insertData == addInsertData(v)
           IN  \/ /\ insertData = <<>>
                  /\ exitCode' = 1
                  /\ UNCHANGED <<activityTable, nextLogId, farmingLogs>>
               \/ /\ insertData # <<>>
                  /\ exitCode' = 1
                  /\ UNCHANGED <<activityTable, nextLogId, farmingLogs>>
               \/ /\ insertData # <<>>
                  /\ nextLogId <= MaxLogs
                  /\ exitCode' = 0
                  /\ activityTable' = Append(activityTable,
                                             InsertedRow(insertData[1], nextLogId))
                  /\ nextLogId' = nextLogId + 1
                  /\ \/ farmingLogs' = farmingLogs
                     \/ \E failing \in SUBSET TodayFiles(activityTable') :
                           farmingLogs' = SyncedFiles(activityTable', farmingLogs, failing)
    /\ UNCHANGED outsideScripts

\* One run of the sync script (sync.ts main): process.exit(1) when the query
\* fails, otherwise today's files are written again from the rows.
RunSync ==
    /\ script' = "sync"
    /\ \/ /\ exitCode' = 1
          /\ farmingLogs' = farmingLogs
       \/ /\ exitCode' = 0
          /\ \E failing \in SUBSET TodayFiles(activityTable) :
                farmingLogs' = SyncedFiles(activityTable, farmingLogs, failing)
    /\ UNCHANGED <<values, activityTable, nextLogId, outsideScripts>>

\* A row is deleted in the database dashboard, outside the scripts.
DeleteActivity ==
    /\ script' = "dashboard"
    /\ \E i \in 1..Len(activityTable) :
          activityTable' = SubSeq(activityTable, 1, i - 1)
                              \o SubSeq(activityTable, i + 1, Len(activityTable))
    /\ UNCHANGED <<values, exitCode, nextLogId, farmingLogs, outsideScripts>>

NextScripts ==
    \/ AddCommand
    \/ RunSync
    \/ DeleteActivity

------------------------------------------------------------------------------
(* Profile cache: src/unnamed/part_013 ProfileManager.  Calls follow one     *)
(* another (every caller awaits the result); times are in milliseconds.      *)

\* CACHE_TTL (line 84)
CACHE_TTL == 30000

\* the latest instant the clock is followed to
MaxClock == 46000

\* a row of plot_profiles holding a profile; critical_asset may be null (<<>>)
DBPlotProfile(slug, p, asset) ==
    [slug |-> slug, name_th |-> p.name_th, lat |-> p.lat, lon |-> p.lon,
     stage |-> p.stage, soil_type |-> p.soil, water_source |-> p.water,
     sensitivity_drought |-> p.personality.sensitivity_drought,
     sensitivity_flood |-> p.personality.sensitivity_flood,
     critical_asset |-> asset]

\* mapDBToProfile (lines 142-163)
mapDBToProfile(row) ==
    PlotProfile(row.name_th, row.lat, row.lon, row.stage, row.soil_type, row.water_source,
                row.sensitivity_drought, row.sensitivity_flood,
                IF row.critical_asset # <<>> THEN row.critical_asset[1] ELSE "mixed")

\* lines 118-122: mappedProfiles; a later row of the same slug replaces the
\* earlier one
MappedProfiles(rows) ==
    {<<rows[i].slug, mapDBToProfile(rows[i])>> :
        i \in {k \in 1..Len(rows) : \A j \in (k + 1)..Len(rows) : rows[j].slug # rows[k].slug}}

\* what the query of plot_profiles may answer: an error, no rows, or rows
QueryResults ==
    LET Answer(error, rows) == [error |-> error, data |-> rows]
    IN  {Answer(TRUE, <<>>),
         Answer(FALSE, <<>>),
         Answer(FALSE, <<DBPlotProfile(PlotId.suan_lang, ProfileLower, <<>>)>>),
         Answer(FALSE, <<DBPlotProfile(PlotId.suan_ban, ProfileHouse, <<"showcase">>),
                         DBPlotProfile(PlotId.suan_makham, ProfileTamarind, <<"durian">>)>>)}

\* what a call of getAllProfiles does: the manager's fields afterwards, whether
\* the database was queried, and the table returned
CallResult(cached, fetched, queried, table) ==
    [cache |-> cached, lastFetch |-> fetched, queried |-> queried, value |-> table]

\* getAllProfiles with the comparison now - lastFetch <= CACHE_TTL
getAllProfilesInclusiveTtl(thisCache, thisLastFetch, forceRefresh, dateNow, answer) ==
    IF ~forceRefresh /\ thisLastFetch > 0 /\ dateNow - thisLastFetch <= CACHE_TTL
    THEN CallResult(thisCache, thisLastFetch, FALSE, thisCache)
    ELSE IF answer.error \/ answer.data = <<>>
    THEN CallResult(thisCache, thisLastFetch, TRUE, FALLBACK_PROFILES)
    ELSE CallResult(MappedProfiles(answer.data), dateNow, TRUE, MappedProfiles(answer.data))

\* getAllProfiles storing the fallback table in the cache as if it were loaded
getAllProfilesCachesFallback(thisCache, thisLastFetch, forceRefresh, dateNow, answer) ==
    IF ~forceRefresh /\ thisLastFetch > 0 /\ dateNow - thisLastFetch < CACHE_TTL
    THEN CallResult(thisCache, thisLastFetch, FALSE, thisCache)
    ELSE IF answer.error \/ answer.data = <<>>
    THEN CallResult(FALLBACK_PROFILES, dateNow, TRUE, FALLBACK_PROFILES)
    ELSE CallResult(MappedProfiles(answer.data), dateNow, TRUE, MappedProfiles(answer.data))

\* getAllProfiles (lines 98-135) on the manager's cache and lastFetch, with
\* Date.now() and the answer the query gives if it is made
getAllProfiles(thisCache, thisLastFetch, forceRefresh, dateNow, answer) ==
    IF ~forceRefresh /\ thisLastFetch > 0 /\ dateNow - thisLastFetch < CACHE_TTL
    THEN CallResult(thisCache, thisLastFetch, FALSE, thisCache)
    ELSE IF answer.error \/ answer.data = <<>>
    THEN CallResult(thisCache, thisLastFetch, TRUE, FALLBACK_PROFILES)
    ELSE CallResult(MappedProfiles(answer.data), dateNow, TRUE, MappedProfiles(answer.data))

NoCall == [forceRefresh |-> FALSE, now |-> 0, queried |-> FALSE,
           answer |-> [error |-> FALSE, data |-> <<>>], value |-> {}]

\* the singleton as getInstance constructs it, on a clock that has started
InitProfiles ==
    /\ cache = {}
    /\ lastFetch = 0
    /\ clock = 1
    /\ lastCall = NoCall
    /\ latestLoad = 0

\* One call of getAllProfiles, awaited: the query, when made, takes no time or
\* a quarter of a minute.
GetAllProfiles ==
    \E forceRefresh \in BOOLEAN, answer \in QueryResults, latency \in {0, 15000} :
        LET done == getAllProfiles(cache, lastFetch, forceRefresh, clock, answer)
        IN  /\ done.queried => clock + latency <= MaxClock
            /\ cache' = done.cache
            /\ lastFetch' = done.lastFetch
            /\ clock' = IF done.queried THEN clock + latency ELSE clock
            /\ lastCall' = [forceRefresh |-> forceRefresh, now |-> clock,
                            queried |-> done.queried,
                            answer |-> IF done.queried THEN answer ELSE NoCall.answer,
                            value |-> done.value]
            /\ latestLoad' = IF done.queried /\ ~answer.error /\ answer.data # <<>>
                             THEN clock ELSE latestLoad
            /\ UNCHANGED outsideProfiles

\* Time passes between two calls.
Tick ==
    /\ \E delay \in {14999, 15000, 30001} :
          /\ clock + delay <= MaxClock
          /\ clock' = clock + delay
    /\ UNCHANGED <<cache, lastFetch, lastCall, latestLoad, outsideProfiles>>

NextProfiles == GetAllProfiles \/ Tick

------------------------------------------------------------------------------
(* Specifications: one per component, over the state of a fresh process.     *)

Init ==
    /\ InitRules
    /\ InitManifest
    /\ InitAgronomy
    /\ InitResolver
    /\ InitPipeline
    /\ InitScripts
    /\ InitProfiles

SpecRules == Init /\ [][NextRules]_vars

SpecManifest == Init /\ [][NextManifest]_vars

SpecRepeated == Init /\ [][NextRepeated]_vars

SpecAgronomy == Init /\ [][NextAgronomy]_vars

SpecResolver == Init /\ [][NextResolver]_vars

SpecPipeline == Init /\ [][NextPipeline]_vars

SpecScripts == Init /\ [][NextScripts]_vars

SpecProfiles == Init /\ [][NextProfiles]_vars

Next ==
    \/ NextRules
    \/ NextManifest
    \/ NextRepeated
    \/ NextAgronomy
    \/ NextResolver
    \/ NextPipeline
    \/ NextScripts
    \/ NextProfiles

Spec == Init /\ [][Next]_vars

------------------------------------------------------------------------------
(* Claims about the rule evaluator (checked under SpecRules)                 *)

Analysed == engine # "none"

\* Index of the first TRUE in a sequence of guards, 0 when none holds.
FirstMatch(guards) ==
    IF \E i \in 1..Len(guards) : guards[i]
    THEN CHOOSE i \in 1..Len(guards) : guards[i] /\ \A j \in 1..(i - 1) : ~guards[j]
    ELSE 0

\* The guards of each family in the priority order the specification lists.
IrrigationGuards ==
    <<forecast.rh_percent < (IF OptSoil(context) = "sandy" THEN 60 ELSE 50),
      forecast.tc_max > 35 /\ forecast.swdown > 600,
      forecast.swdown < 300>>
PhysiologyGuards ==
    <<forecast.swdown > 600 /\ forecast.rh_percent < 50,
      forecast.rain_mm > 5,
      forecast.rain_mm = 0 /\ forecast.tc_max > 32>>
DiseaseGuards ==
    <<forecast.rain_mm > 10 /\ forecast.rh_percent > 80,
      forecast.rh_percent > 90>>
PestGuards ==
    <<forecast.tc_max > 33 /\ forecast.rh_percent < 50,
      forecast.rain_mm = 0>>

\* Which condition of its family an insight is the outcome of.
ConditionRank(condition) ==
    CASE condition \in {"High Transpiration", "Nutrient Lock", "Phytophthora Risk",
                        "Red Mite Boom"} -> 1
      [] condition \in {"Heat Stress", "Raun on Bloom", "Drought Break", "High Humidity",
                        "Thrips Alert"} -> 2
      [] condition \in {"Low Light", "Ideal Induction", "Bloom Stress"} -> 3
      [] OTHER -> 0

\* The third physiology condition has an outcome only for these stages.
InductionOutcomeStage ==
    (IF HasContext(context) THEN context.stage ELSE "preparing_leaf")
        \in {"induction", "preparing_leaf", "bloom"}

FirstMatchWins(result, guards, silentRank) ==
    /\ Len(result) <= 1
    /\ result # <<>> =>
          ConditionRank(result[1].trigger_data.condition) = FirstMatch(guards)
    /\ result = <<>> => FirstMatch(guards) \in {0} \cup silentRank

\* C1: every analyzer returns at most one advisory, the outcome of the first
\* condition of its family (in priority order) whose guard holds; a sandy day
\* with humidity < 50, tempMax > 35 and radiation > 600 yields the
\* high-transpiration advisory only, never the heat-stress one.
C1_FirstMatchWins ==
    Analysed =>
        /\ FirstMatchWins(irrigation, IrrigationGuards, {})
        /\ FirstMatchWins(physio, PhysiologyGuards,
                          IF InductionOutcomeStage THEN {} ELSE {3})
        /\ FirstMatchWins(disease, DiseaseGuards, {})
        /\ FirstMatchWins(pest, PestGuards, {})
        /\ (/\ OptSoil(context) = "sandy"
            /\ forecast.rh_percent < 50
            /\ forecast.tc_max > 35
            /\ forecast.swdown > 600)
           => /\ Len(irrigation) = 1
              /\ irrigation[1].trigger_data.condition = "High Transpiration"

C1_Witness ==
    /\ engine = "phase2"
    /\ OptSoil(context) = "sandy"
    /\ forecast.rh_percent = 45
    /\ forecast.tc_max = 36
    /\ forecast.swdown = 700
    /\ Len(irrigation) = 1
    /\ irrigation[1].trigger_data.condition = "High Transpiration"

\* The low-humidity condition as C4 states it.
LowHumidityAsClaimed ==
    LET sandy == OptSoil(context) = "sandy"
        rh == forecast.rh_percent
        fires == irrigation # <<>>
                   /\ irrigation[1].trigger_data.condition = "High Transpiration"
    IN  /\ fires <=> (IF sandy THEN rh < 60 ELSE rh < 50)
        /\ fires => /\ irrigation[1].status_level =
                          (IF sandy /\ rh < 50 THEN "critical" ELSE "warning")
                    /\ irrigation[1].trigger_data.rh = rh

\* C4 as stated, for every analyzeIrrigation of the repository: the
\* low-humidity condition fires below 50 (below 60 on sandy soil) and is
\* critical exactly when the soil is sandy and humidity < 50, else warning.
C4_Original == Analysed => LowHumidityAsClaimed

\* C4 (amended): the statement holds of the context-aware analyzer; the
\* context-naive analyzer of conditions.ts fires below 50 and is always critical.
C4_LowHumidity ==
    /\ engine = "phase2" => LowHumidityAsClaimed
    /\ engine = "phase1" =>
          LET fires == irrigation # <<>>
                         /\ irrigation[1].trigger_data.condition = "High Transpiration"
          IN  /\ fires <=> forecast.rh_percent < 50
              /\ fires => /\ irrigation[1].status_level = "critical"
                          /\ irrigation[1].trigger_data.rh = forecast.rh_percent

C4_Witness ==
    /\ engine = "phase2"
    /\ OptSoil(context) = "sandy"
    /\ forecast.rh_percent = 45
    /\ irrigation # <<>>
    /\ irrigation[1].status_level = "critical"
    /\ irrigation[1].trigger_data.rh = 45

CategoryOf(result) == IF result = <<>> THEN "none" ELSE result[1].category

\* C10 as stated: every advisory carries the category of its family, and
\* analyzePest yields the category pest.
C10_Original ==
    Analysed =>
        /\ CategoryOf(irrigation) \in {"none", "irrigation"}
        /\ CategoryOf(physio) \in {"none", "physiology"}
        /\ CategoryOf(disease) \in {"none", "disease"}
        /\ CategoryOf(pest) \in {"none", "pest"}

\* C10 (amended): categories come from {irrigation, disease, physiology};
\* analyzeIrrigation yields irrigation, analyzePhysiology physiology, and both
\* analyzeDisease and analyzePest yield disease (there is no pest category).
C10_Categories ==
    Analysed =>
        /\ CategoryOf(irrigation) \in {"none", "irrigation"}
        /\ CategoryOf(physio) \in {"none", "physiology"}
        /\ CategoryOf(disease) \in {"none", "disease"}
        /\ CategoryOf(pest) \in {"none", "disease"}

C10_Witness ==
    /\ engine = "phase2"
    /\ pest # <<>>
    /\ pest[1].trigger_data.condition = "Thrips Alert"
    /\ pest[1].category = "disease"
    /\ irrigation # <<>>
    /\ physio # <<>>
    /\ disease # <<>>

\* the stage analyzePhysiology works with: context?.stage || 'preparing_leaf'
PhysiologyStage == IF HasContext(context) THEN context.stage ELSE "preparing_leaf"

\* the third physiology condition is the first one whose guard holds
InductionCase == Analysed /\ FirstMatch(PhysiologyGuards) = 3

\* what C17 says of severity and stage, the trigger data left aside
InductionPolarity ==
    /\ InductionCase =>
          CASE PhysiologyStage \in {"induction", "preparing_leaf"} ->
                 /\ physio # <<>>
                 /\ physio[1].status_level = "optimal"
                 /\ physio[1].message = "ideal-induction"
            [] PhysiologyStage = "bloom" ->
                 /\ physio # <<>>
                 /\ physio[1].status_level = "warning"
                 /\ physio[1].message = "bloom-stress"
            [] OTHER -> physio = <<>>
    /\ (Analysed /\ physio # <<>> /\ physio[1].status_level = "optimal") =>
          (InductionCase /\ PhysiologyStage \in {"induction", "preparing_leaf"})

\* C17 as stated: on a day with rainMm = 0 and tempMax > 32 that no earlier
\* condition matched, the advisory is optimal only for the stages induction
\* and preparing_leaf and a warning for bloom, no other stage gets an optimal
\* advisory, and the trigger data of the bloom warning is identical to that
\* of the optimal advisory of the same day.
C17_Original ==
    /\ InductionPolarity
    /\ (InductionCase /\ PhysiologyStage = "bloom") =>
          physio[1].trigger_data = analyzePhysiology(forecast, NoContext)[1].trigger_data

\* C17 (amended): the polarity is as stated; both outcomes record the same
\* rain and temp, but the condition recorded is 'Ideal Induction' in one and
\* 'Bloom Stress' in the other, and only the bloom warning records the stage.
C17_Induction ==
    /\ InductionPolarity
    /\ (InductionCase /\ PhysiologyStage \in {"induction", "preparing_leaf"}) =>
          physio[1].trigger_data =
              [rain |-> forecast.rain_mm, temp |-> forecast.tc_max,
               condition |-> "Ideal Induction"]
    /\ (InductionCase /\ PhysiologyStage = "bloom") =>
          physio[1].trigger_data =
              [rain |-> forecast.rain_mm, temp |-> forecast.tc_max,
               condition |-> "Bloom Stress", stage |-> "bloom"]

\* a dry day of 33 degrees on a plot in bloom
C17_Witness ==
    /\ engine = "phase2"
    /\ InductionCase
    /\ OptStage(context) = "bloom"
    /\ forecast.rain_mm = 0
    /\ forecast.tc_max = 33
    /\ physio # <<>>
    /\ physio[1].status_level = "warning"
    /\ physio[1].trigger_data.condition = "Bloom Stress"

\* C18: when the nutrient-lock condition did not match and rainMm > 5, the
\* advisory is critical at every stage: the rain-on-bloom outcome for the
\* stage bloom, the drought-break outcome for every other stage or without a
\* profile; the two differ in message and trigger condition only.
C18_RainBranch ==
    (Analysed /\ FirstMatch(PhysiologyGuards) = 2) =>
        /\ physio # <<>>
        /\ physio[1].status_level = "critical"
        /\ physio[1].category = "physiology"
        /\ physio[1].trigger_data.rain = forecast.rain_mm
        /\ IF OptStage(context) = "bloom"
           THEN /\ physio[1].message = "rain-washes-bloom"
                /\ physio[1].trigger_data.condition = "Raun on Bloom"
           ELSE /\ physio[1].message = "drought-break"
                /\ physio[1].trigger_data.condition = "Drought Break"

\* 8 mm of rain on a plot in bloom
C18_Witness ==
    /\ engine = "phase2"
    /\ FirstMatch(PhysiologyGuards) = 2
    /\ OptStage(context) = "bloom"
    /\ forecast.rain_mm = 8
    /\ physio # <<>>
    /\ physio[1].status_level = "critical"
    /\ physio[1].message = "rain-washes-bloom"

\* C19: tempMax > 33 and humidity < 50 yields the mite warning; otherwise
\* rainMm = 0 yields the thrips advisory, critical exactly for the stages
\* bloom and preparing_leaf and info for every other stage or without a
\* profile; otherwise the pest analyzer yields nothing.
C19_Pest ==
    Analysed =>
        IF forecast.tc_max > 33 /\ forecast.rh_percent < 50
        THEN /\ pest # <<>>
             /\ pest[1].status_level = "warning"
             /\ pest[1].trigger_data.condition = "Red Mite Boom"
        ELSE IF forecast.rain_mm = 0
        THEN /\ pest # <<>>
             /\ pest[1].trigger_data.condition = "Thrips Alert"
             /\ pest[1].status_level =
                   (IF OptStage(context) \in {"bloom", "preparing_leaf"}
                    THEN "critical" ELSE "info")
             /\ pest[1].message =
                   (IF OptStage(context) \in {"bloom", "preparing_leaf"}
                    THEN "thrips/sensitive-stage" ELSE "thrips")
        ELSE pest = <<>>

\* a rainless, humid day on a plot preparing leaves
C19_Witness ==
    /\ engine = "phase2"
    /\ OptStage(context) = "preparing_leaf"
    /\ forecast.rain_mm = 0
    /\ forecast.rh_percent = 80
    /\ pest # <<>>
    /\ pest[1].trigger_data.condition = "Thrips Alert"
    /\ pest[1].status_level = "critical"

\* C20: when the low-humidity condition did not match, tempMax > 35 with
\* radiation > 600 yields the heat-stress advisory, critical exactly when the
\* stage is bloom and warning otherwise; when neither matched, radiation < 300
\* yields an advisory of severity optimal whatever the profile.
C20_HeatAndLight ==
    Analysed =>
        /\ FirstMatch(IrrigationGuards) = 2 =>
              /\ irrigation # <<>>
              /\ irrigation[1].trigger_data.condition = "Heat Stress"
              /\ irrigation[1].status_level =
                    (IF OptStage(context) = "bloom" THEN "critical" ELSE "warning")
        /\ FirstMatch(IrrigationGuards) = 3 =>
              /\ irrigation # <<>>
              /\ irrigation[1].trigger_data.condition = "Low Light"
              /\ irrigation[1].status_level = "optimal"

\* 36 degrees under 700 W/m2 on a plot in bloom, the air not dry
C20_Witness ==
    /\ engine = "phase2"
    /\ OptStage(context) = "bloom"
    /\ FirstMatch(IrrigationGuards) = 2
    /\ forecast.tc_max = 36
    /\ forecast.swdown = 700
    /\ irrigation # <<>>
    /\ irrigation[1].status_level = "critical"
    /\ irrigation[1].trigger_data.condition = "Heat Stress"

\* C21: radiation > 600 with humidity < 50 yields the nutrient-lock advisory,
\* critical exactly when the stage is bloom or fruit_set, and a warning for
\* every other stage and when no profile is supplied.
C21_NutrientLock ==
    Analysed =>
        LET fires == physio # <<>> /\ physio[1].trigger_data.condition = "Nutrient Lock"
        IN  /\ fires <=> (forecast.swdown > 600 /\ forecast.rh_percent < 50)
            /\ fires =>
                  /\ physio[1].category = "physiology"
                  /\ physio[1].status_level =
                        (IF OptStage(context) \in {"bloom", "fruit_set"}
                         THEN "critical" ELSE "warning")
                  /\ physio[1].trigger_data.swdown = forecast.swdown
                  /\ physio[1].trigger_data.rh = forecast.rh_percent

\* strong sun and dry air on a plot setting fruit
C21_Witness ==
    /\ engine = "phase2"
    /\ OptStage(context) = "fruit_set"
    /\ forecast.swdown = 700
    /\ forecast.rh_percent = 45
    /\ physio # <<>>
    /\ physio[1].trigger_data.condition = "Nutrient Lock"
    /\ physio[1].status_level = "critical"

\* C22: rainMm > 10 with humidity > 80 yields a critical disease advisory;
\* failing that, humidity > 90 yields a warning whatever the rain amount; in
\* every other case the disease analyzer returns nothing.
C22_Disease ==
    Analysed =>
        IF forecast.rain_mm > 10 /\ forecast.rh_percent > 80
        THEN /\ disease # <<>>
             /\ disease[1].status_level = "critical"
             /\ disease[1].trigger_data.condition = "Phytophthora Risk"
        ELSE IF forecast.rh_percent > 90
        THEN /\ disease # <<>>
             /\ disease[1].status_level = "warning"
             /\ disease[1].trigger_data.condition = "High Humidity"
             /\ disease[1].trigger_data = [rh |-> forecast.rh_percent,
                                           condition |-> "High Humidity"]
        ELSE disease = <<>>

\* humidity of 95 % on a day without rain
C22_Witness ==
    /\ Analysed
    /\ forecast.rh_percent = 95
    /\ forecast.rain_mm = 0
    /\ disease # <<>>
    /\ disease[1].status_level = "warning"
    /\ disease[1].trigger_data.condition = "High Humidity"

------------------------------------------------------------------------------
(* Claims about the manifest generator (checked under SpecManifest)          *)

ManifestBuilt == call = "generateManifest"

AllForecastDays ==
    UNION {{<<i, j>> : j \in 1..Len(data[i].environment.forecast)} : i \in 1..Len(data)}

\* The largest value of Op over every forecast day of every plot, 0 when there is none
MaxOverDays(Op(_)) ==
    LET vals == {Op(data[ij[1]].environment.forecast[ij[2]]) : ij \in AllForecastDays} \cup {0}
    IN  CHOOSE m \in vals : \A v \in vals : v <= m

CriticalPlots == {i \in 1..Len(data) : data[i].insight.status = "critical"}

\* C2: the global signal scan is a strict priority chain: a critical plot gives
\* emergency and that plot's headline; else maxRainMm > 50 gives emergency, mode
\* rain and the flood alert; else maxVPD > 2.0 gives mode vpd, no emergency and
\* the transpiration alert; else mode default and the nominal headline.
C2_PriorityChain ==
    ManifestBuilt =>
        LET maxRainMm == MaxOverDays(RainMmOrZero)
            maxVPD == MaxOverDays(LAMBDA d : OrZero(d.vpd))
        IN  IF CriticalPlots # {}
            THEN /\ analysis.isEmergency
                 /\ analysis.headline.kind = "critical"
                 /\ \E i \in CriticalPlots :
                       analysis.headline.text =
                           (IF data[i].insight.headlines # <<>>
                            THEN data[i].insight.headlines[1] ELSE "CRITICAL ALERT")
            ELSE IF maxRainMm > 50
            THEN /\ analysis.isEmergency
                 /\ analysis.mode = "rain"
                 /\ analysis.headline.kind = "heavy-rain"
                 /\ analysis.headline.value = maxRainMm
            ELSE IF maxVPD > 200
            THEN /\ ~analysis.isEmergency
                 /\ analysis.mode = "vpd"
                 /\ analysis.headline.kind = "high-transpiration"
                 /\ analysis.headline.value = maxVPD
            ELSE /\ ~analysis.isEmergency
                 /\ analysis.mode = "default"
                 /\ analysis.headline.kind = "overview"

\* one plot forecasts 80 mm, another plot is flagged critical: its headline wins
C2_Witness ==
    /\ ManifestBuilt
    /\ Len(data) = 2
    /\ data[1].insight.status = "nominal"
    /\ \E j \in 1..Len(data[1].environment.forecast) :
          RainMmOrZero(data[1].environment.forecast[j]) = 80
    /\ data[2].insight.status = "critical"
    /\ data[2].insight.headlines # <<>>
    /\ analysis.isEmergency
    /\ analysis.headline.text = data[2].insight.headlines[1]

\* The per-plot priority as C3 states it.
ClaimedLocalMode(profile, gMode) ==
    LET asset == ToLowerCase(profile.personality.critical_asset)
        stage == ToLowerCase(profile.stage)
    IN  CASE asset = "durian" \/ stage \in {"bloom", "pollination"} -> "vpd"
          [] ~(asset = "durian" \/ stage \in {"bloom", "pollination"})
             /\ (profile.personality.sensitivity_flood > 7 \/ profile.soil = "clayey_filled")
               -> "rain"
          [] ~(asset = "durian" \/ stage \in {"bloom", "pollination"})
             /\ ~(profile.personality.sensitivity_flood > 7 \/ profile.soil = "clayey_filled")
             /\ asset = "seedling"
               -> "temp"
          [] OTHER -> gMode

ChartTitleOf(mode) ==
    CASE mode = "vpd" -> "VPD & Stress Index"
      [] mode = "rain" -> "Precipitation & Flood Risk"
      [] mode = "temp" -> "Heat Stress (Max Temp)"
      [] OTHER -> "General Forecast"

\* C3: a plot's resolved mode is vpd for durian / bloom / pollination, else rain
\* for floodSensitivity > 7 or clayey_filled soil, else temp for seedling, else
\* the global mode; the plot's card shows the chart of that mode.
C3_LocalMode ==
    /\ call = "generatePlotComponents" =>
          /\ localMode = ClaimedLocalMode(sitrep.plot.profile, globalMode)
          /\ plotComponents[1].props.heroChart.title = ChartTitleOf(localMode)
    /\ ManifestBuilt =>
          \A k \in 1..Len(manifest.visual_manifest) :
              LET comp == manifest.visual_manifest[k]
              IN  comp.type = "PLOT_COMPOSITE" =>
                    \E i \in 1..Len(data) :
                        /\ data[i].plot.id = comp.props.plotName
                        /\ comp.props.heroChart.title =
                              ChartTitleOf(ClaimedLocalMode(data[i].plot.profile,
                                                            analysis.mode))

\* a bloom / durian plot under a global rain (emergency) mode still shows vpd
C3_Witness ==
    /\ call = "generatePlotComponents"
    /\ sitrep.plot.profile.stage = "bloom"
    /\ sitrep.plot.profile.personality.critical_asset = "durian"
    /\ sitrep.plot.profile.personality.sensitivity_flood > 7
    /\ globalMode = "rain"
    /\ localMode = "vpd"

\* the aggregator's emergency flag: a plot flagged critical, or over 50 mm of rain
FlaggedEmergency == CriticalPlots # {} \/ MaxOverDays(RainMmOrZero) > 50

\* C14: the theme is emergency-red when the aggregator flagged an emergency,
\* else drought-orange when maxVPD > 1.5, else nominal; with no emergency and
\* 1.5 < maxVPD <= 2.0 the theme is drought-orange and the global mode default.
C14_Theme ==
    ManifestBuilt =>
        LET maxVPD == MaxOverDays(LAMBDA d : OrZero(d.vpd))
        IN  /\ analysis.isEmergency = FlaggedEmergency
            /\ manifest.theme = (IF FlaggedEmergency THEN "emergency-red"
                                 ELSE IF maxVPD > 150 THEN "drought-orange"
                                 ELSE "nominal")
            /\ (~FlaggedEmergency /\ maxVPD > 150 /\ maxVPD <= 200) =>
                  (manifest.theme = "drought-orange" /\ analysis.mode = "default")

\* no emergency and the largest vpd of the horizon is 1.6 kPa
C14_Witness ==
    /\ ManifestBuilt
    /\ ~FlaggedEmergency
    /\ MaxOverDays(LAMBDA d : OrZero(d.vpd)) = 160
    /\ manifest.theme = "drought-orange"
    /\ analysis.mode = "default"

\* C15: without a focus plot the components are exactly one insight banner,
\* first, followed by one composite card per plot in plot order; with a focus
\* plot there is no insight banner and every component is of the focused plot.
C15_Original ==
    ManifestBuilt =>
        LET components == manifest.visual_manifest
        IN  IF filterPlotId = ""
            THEN /\ Len(components) = 1 + Len(data)
                 /\ components[1].type = "INSIGHT_CARD"
                 /\ \A i \in 1..Len(data) :
                       /\ components[i + 1].type = "PLOT_COMPOSITE"
                       /\ components[i + 1].props.plotName = data[i].plot.id
            ELSE \A k \in 1..Len(components) :
                       /\ components[k].type # "INSIGHT_CARD"
                       /\ components[k].id[2] = filterPlotId

------------------------------------------------------------------------------
(* Claims about repeated calls (checked under SpecRepeated)                  *)

Repeated == call = "generateManifestAgain"
Pinned == now = manifest.meta.generated_at

------------------------------------------------------------------------------
(* Claims about the formula library (checked under SpecAgronomy)             *)

EToCalled == formula = "calculateHargreavesETo"

\* C5: hargreavesETo never returns a negative value or NaN: it returns 0
\* whenever the raw value would be negative, and raises a domain error instead
\* of returning a number whenever tempMax < tempMin.
C5_Original ==
    EToCalled =>
        /\ args.tMax < args.tMin => returned.threw
        /\ ~returned.threw => /\ ~returned.value.nan
                              /\ returned.value.v >= 0
        /\ LET raw == RawETo(args.tMax, args.tMin, args.lat, args.date)
           IN  (~raw.nan /\ raw.v < 0) => (~returned.threw /\ returned.value = Num(0))

------------------------------------------------------------------------------
(* Claims about plot resolution (checked under SpecResolver)                 *)

ProfileResolved == resolver = "resolvePlotProfile"
PlotIdResolved == resolver = "resolvePlotId"

KeywordMatch(name) ==
    LET normalized == Trim(LowerCase(name))
    IN  \E kw \in HouseKeywords \cup TamarindKeywords \cup LowerKeywords \cup PramKeywords :
            Includes(normalized, kw)

HyphenatedMakham == <<"s", "u", "a", "n", "-", "m", "a", "k", "h", "a", "m">>
ThaiMakham == <<"U+0E21", "U+0E30", "U+0E02", "U+0E32", "U+0E21">>

\* the order exact key, keyword, fallback, and the two aliases of the makham plot
ResolutionOrder ==
    /\ ProfileResolved =>
        /\ matchedBy = 1 <=> HasKey(PLOT_PROFILES, inputName)
        /\ matchedBy = 2 <=> (~HasKey(PLOT_PROFILES, inputName) /\ KeywordMatch(inputName))
        /\ matchedBy = 3 <=> (~HasKey(PLOT_PROFILES, inputName) /\ ~KeywordMatch(inputName))
        /\ matchedBy = 3 => resolvedProfile = DEFAULT_PROFILE
        /\ inputName \in {HyphenatedMakham, ThaiMakham} => resolvedProfile = ProfileTamarind
    /\ PlotIdResolved =>
        (inputName \in {HyphenatedMakham, ThaiMakham}
            => resolvedPlotId = <<PlotId.suan_makham>>)

\* C7: resolution tries an exact slug, then a keyword/alias, then the fallback;
\* "suan-makham" and the Thai keyword for makham resolve to the same plot; an
\* unknown string resolves to the default profile with a return-side signal
\* that tells it from an intentional request for the default plot.
C7_Original ==
    /\ ResolutionOrder
    /\ (ProfileResolved /\ matchedBy = 3) =>
            resolvedProfile # resolvePlotProfile(<<"h", "o", "u", "s", "e">>).profile

------------------------------------------------------------------------------
(* Claims about the report pipeline (checked under SpecPipeline)             *)

Loaded == pipeline = "loadSystemContext"
Reported == pipeline \in {"loadSystemContext", "synthesizeInsights"}

ValidMetrics(d) == ~d.vpd.nan /\ ~d.gdd.nan /\ ~d.eto.nan

\* C6: an invocation of loadSystemContext ends either with a complete report
\* whose vpd, gdd and eto values are all valid numbers, or with a hard error
\* and no report; a forecast row with tc_min > tc_max never leads to a
\* returned report.
C6_Original ==
    Loaded =>
        /\ outcome.threw => outcome.report = NoReport
        /\ ~outcome.threw =>
              \A i \in 1..Len(outcome.report.plots) :
                 LET env == outcome.report.plots[i].value.environment
                 IN  /\ ValidMetrics(env.current)
                     /\ \A k \in 1..Len(env.forecast) : ValidMetrics(env.forecast[k])
        /\ (\E i \in 1..Len(forecastsRaw) : forecastsRaw[i].tc_min > forecastsRaw[i].tc_max)
              => outcome.threw

\* the plots the forecast and activity records of a run refer to
ReferencedPlots ==
    {ResolvedOr(forecastsRaw[i].location_id, forecastsRaw[i].location_id) :
        i \in 1..Len(forecastsRaw)}
    \cup {ResolvedOr(activityLogs[i].plot_name, activityLogs[i].plot_name) :
            i \in 1..Len(activityLogs)}
    \cup {ResolvedOr(pendingLogs[i].plot_name, pendingLogs[i].plot_name) :
            i \in 1..Len(pendingLogs)}

\* C8: every plot a forecast or activity record refers to gets exactly one
\* profile, the default one when it cannot be resolved otherwise, so no
\* referenced plot is missing from the report for lack of a profile.
C8_Original ==
    (Reported /\ ~outcome.threw) =>
        \A id \in ReferencedPlots :
            (requestedPlots = <<>> \/ id \in Range(requestedPlots))
                => HasEntry(outcome.report.plots, id)

\* the last row of the query result for a plot and a date
LastRowOf(plot, date) ==
    forecastsRaw[CHOOSE i \in 1..Len(forecastsRaw) :
        /\ ResolvedOr(forecastsRaw[i].location_id, forecastsRaw[i].location_id) = plot
        /\ forecastsRaw[i].forecast_date = date
        /\ \A j \in (i + 1)..Len(forecastsRaw) :
              ~(/\ ResolvedOr(forecastsRaw[j].location_id, forecastsRaw[j].location_id) = plot
                /\ forecastsRaw[j].forecast_date = date)]

PlotOf(row) == ResolvedOr(row.location_id, row.location_id)

\* the rows a run uses after de-duplication
UsedRows ==
    IF Reported
    THEN UNION {Range(forecastsUsed[i].value) : i \in 1..Len(forecastsUsed)}
    ELSE {forecastsUsed[i].value : i \in 1..Len(forecastsUsed)}

\* C9: after de-duplication the forecasts of a run hold at most one record per
\* (plot, date), and of several input rows with the same (plot, date) the
\* last one in input order is the one kept.
C9_Original ==
    pipeline # "none" =>
        /\ \A f \in UsedRows, g \in UsedRows :
              (PlotOf(f) = PlotOf(g) /\ f.forecast_date = g.forecast_date) => f = g
        /\ \A f \in UsedRows : f = LastRowOf(PlotOf(f), f.forecast_date)

Synthesised == pipeline = "runSynthesis"

\* C11: the insights collected by one run of runSynthesis hold at most one
\* insight per (location_id, target_date, category), the key of the unique
\* constraint weather_insights_unique_daily.
C11_Original ==
    Synthesised =>
        \A i \in 1..Len(insights), j \in 1..Len(insights) :
            (/\ insights[i].location_id = insights[j].location_id
             /\ insights[i].target_date = insights[j].target_date
             /\ insights[i].category = insights[j].category) => i = j

\* a row of the query result is a forecast for the day of the run
CoversToday == \E i \in 1..Len(forecastsRaw) : forecastsRaw[i].forecast_date = Now.day

\* C12: the gap analysis of loadSystemContext says fresh exactly when the
\* query returned at least one forecast row and a row covers today; in every
\* other case it says stale with external_search_needed set; with no forecast
\* row at all the call still returns a report, stale and with the flag set.
C12_Original ==
    (Loaded /\ ~weatherError) =>
        /\ ~outcome.threw
        /\ LET gap == outcome.report.gap_analysis
           IN  /\ gap.integrity = "fresh" <=> (forecastsRaw # <<>> /\ CoversToday)
               /\ gap.integrity # "fresh" =>
                     (gap.integrity = "stale" /\ gap.external_search_needed)
               /\ forecastsRaw = <<>> =>
                     (gap.integrity = "stale" /\ gap.external_search_needed)

\* the requested plots no forecast row refers to, in the order requested
Uncovered ==
    SelectSeq(requestedPlots,
              LAMBDA p : \A i \in 1..Len(forecastsRaw) : PlotOf(forecastsRaw[i]) # p)

\* C13: when plots are requested and a requested plot has no forecast row,
\* the run raises nothing, missing_plots lists exactly the requested plots
\* without a forecast row, and integrity is not fresh.
C13_Original ==
    (Reported /\ ~weatherError /\ Uncovered # <<>>) =>
        /\ ~outcome.threw
        /\ outcome.report.gap_analysis.missing_plots = Uncovered
        /\ outcome.report.gap_analysis.integrity # "fresh"

\* the rows of activity_logs that resolve to a plot, newest first
LogsOf(plot) ==
    SelectSeq(activityLogs, LAMBDA l : resolvePlotId(l.plot_name) = <<plot>>)

\* C23: for every plot of a report, activities.recent holds at most 5
\* entries, the 5 most recent activity rows that resolve to the plot, newest
\* first; the composite card of a plot shows the 2 most recent of them at most.
C23_Original ==
    /\ (Loaded /\ ~outcome.threw) =>
          \A i \in 1..Len(outcome.report.plots) :
              LET recent == outcome.report.plots[i].value.activities.recent
                  own == LogsOf(outcome.report.plots[i].key)
              IN  /\ Len(recent) <= 5
                  /\ Len(recent) = (IF Len(own) < 5 THEN Len(own) ELSE 5)
                  /\ \A k \in 1..Len(recent) :
                        recent[k] = [date |-> own[k].created_at,
                                     type |-> own[k].activity_type,
                                     notes |-> own[k].notes]
    /\ ManifestBuilt =>
          \A k \in 1..Len(manifest.visual_manifest) :
              LET comp == manifest.visual_manifest[k]
              IN  comp.type = "PLOT_COMPOSITE" =>
                    \E i \in 1..Len(data) :
                        /\ data[i].plot.id = comp.props.plotName
                        /\ Len(comp.props.recentActivities) <= 2
                        /\ comp.props.recentActivities =
                              [j \in 1..(IF Len(data[i].activities.recent) < 2
                                         THEN Len(data[i].activities.recent) ELSE 2) |->
                                  [date |-> data[i].activities.recent[j].date,
                                   note |-> data[i].activities.recent[j].notes]]

------------------------------------------------------------------------------
(* Claims about critical plots (checked under SpecManifest)                  *)

\* the critical plots in plot iteration order
CriticalInOrder ==
    SelectSeq([i \in 1..Len(data) |-> i], LAMBDA i : i \in CriticalPlots)

\* C30: with a critical plot the global mode is rain, so every plot that has
\* no override of its own shows the rain chart; the headline is the one of the
\* last critical plot in plot order and the bullets are one entry per critical
\* plot in that order, whatever maxRainMm and maxVPD are.
C30_CriticalPlots ==
    (ManifestBuilt /\ CriticalPlots # {}) =>
        LET last == data[CriticalInOrder[Len(CriticalInOrder)]]
        IN  /\ analysis.mode = "rain"
            /\ analysis.headline =
                  Headline("critical",
                           IF last.insight.headlines # <<>> THEN last.insight.headlines[1]
                           ELSE "CRITICAL ALERT", 0)
            /\ analysis.bulletPoints =
                  [k \in 1..Len(CriticalInOrder) |->
                      Bullet("critical", data[CriticalInOrder[k]].plot.id,
                             data[CriticalInOrder[k]].insight.headlines)]
            /\ \A k \in 1..Len(manifest.visual_manifest) :
                  LET comp == manifest.visual_manifest[k]
                  IN  comp.type = "PLOT_COMPOSITE" =>
                        \E i \in 1..Len(data) :
                            /\ data[i].plot.id = comp.props.plotName
                            /\ ClaimedLocalMode(data[i].plot.profile, "inherited") = "inherited"
                                  => comp.props.heroChart.title = ChartTitleOf("rain")

\* two critical plots with different headlines, one of them forecasting more
\* than 50 mm: the headline is the second plot's, the bullets name both
C30_Witness ==
    /\ ManifestBuilt
    /\ Len(data) = 2
    /\ CriticalPlots = {1, 2}
    /\ data[1].insight.headlines # <<>>
    /\ data[2].insight.headlines = <<>>
    /\ MaxOverDays(RainMmOrZero) > 50
    /\ analysis.headline.text = "CRITICAL ALERT"
    /\ Len(analysis.bulletPoints) = 2
    /\ \E i \in 1..2 : ClaimedLocalMode(data[i].plot.profile, "inherited") = "inherited"

------------------------------------------------------------------------------
(* Claims about calculateGDD and calculateVPD (checked under SpecAgronomy)   *)

\* C25: gdd is never negative, and with tMax = tMin = t it is max(0, t - tBase)
\* (in hundredths).
C25_Gdd ==
    formula = "calculateGDD" =>
        /\ ~returned.threw /\ ~returned.value.nan
        /\ returned.value.v >= 0
        /\ args.tMax = args.tMin =>
               returned.value.v = IF args.tMax - args.tBase > 0
                                  THEN 100 * (args.tMax - args.tBase) ELSE 0

\* a call with tMax = tMin below the base temperature has returned
C25_Witness ==
    /\ formula = "calculateGDD"
    /\ args.tMax = args.tMin /\ args.tMax < args.tBase
    /\ returned.value = Num(0)

\* C26: vpd(t, 100) = 0, and for a fixed temperature the rounded value does
\* not fall as the relative humidity decreases over 0..100: every drier air
\* gives a value at least as large as the one returned.
C26_Vpd ==
    formula = "calculateVPD" =>
        /\ ~returned.threw /\ ~returned.value.nan
        /\ args.rh = 100 => returned.value.v = 0
        /\ \A drier \in 0..args.rh :
               calculateVPD(args.temp, drier).v >= returned.value.v

\* a call on air one point below saturation has returned more than the call
\* at saturation does
C26_Witness ==
    /\ formula = "calculateVPD"
    /\ args.rh = 99
    /\ returned.value.v > calculateVPD(args.temp, 100).v

------------------------------------------------------------------------------
(* Claims about the command-line scripts (checked under SpecScripts)         *)

\* the entries of a Markdown log: each with the activity type it stands under
LogEntries(content) ==
    UNION {{<<content.sections[i].key, content.sections[i].value[k]>> :
               k \in 1..Len(content.sections[i].value)} :
           i \in 1..Len(content.sections)}

\* C24 as stated: sync is append-only; in every step each file of the farming
\* logs is still there afterwards and still holds every activity entry it
\* held before, whatever happened to the rows of the table.
C24_Original ==
    [][\A i \in 1..Len(farmingLogs) :
          /\ HasEntry(farmingLogs', farmingLogs[i].key)
          /\ LogEntries(farmingLogs[i].value)
                \subseteq LogEntries(EntryOr(farmingLogs', farmingLogs[i].key,
                                             farmingLogs[i].value))]_vars

\* the command lines the validation of the add command turns down
ArgsRejected(v) ==
    \/ v.type = <<>> \/ v.plot = <<>>
    \/ v.type[1] = "" \/ v.plot[1] = <<>>
    \/ v.type[1] \notin validTypes
    \/ resolvePlotId(v.plot[1]) = <<>>

------------------------------------------------------------------------------
(* Claims about the profile cache (checked under SpecProfiles)               *)

\* the answer of a query that gives getAllProfiles nothing to cache
NoRows(answer) == answer.error \/ answer.data = <<>>

\* a load that answered with rows was started less than CACHE_TTL before t
LoadedWithin(t) == latestLoad > 0 /\ t - latestLoad < CACHE_TTL

\* C28: a call of getAllProfiles returns the cached table without querying
\* exactly when forceRefresh is false and a load that answered with at least
\* one row was started less than 30 000 ms before the call; every other call
\* queries the database, so no table is served from a load 30 000 ms old or
\* older.
C28_CacheWindow ==
    [][GetAllProfiles =>
         LET served == ~lastCall'.queried
             fresh == ~lastCall'.forceRefresh /\ LoadedWithin(lastCall'.now)
         IN  /\ lastCall'.now = clock
             /\ served <=> fresh
             /\ served => lastCall'.value = cache /\ cache' = cache /\ cache # {}
             /\ (latestLoad > 0 /\ clock - latestLoad >= CACHE_TTL) => lastCall'.queried]_vars

\* a call 29 999 ms after a load has been served the cached table
C28_Witness ==
    /\ ~lastCall.queried
    /\ lastCall.now - latestLoad = CACHE_TTL - 1
    /\ lastCall.value = cache
    /\ cache # {}

\* C29: a call whose query fails or answers with no rows returns the fallback
\* table and leaves cache and lastFetch as they were; the cache never holds
\* the fallback table; and the call after it queries again unless an earlier
\* load with rows is still within its window.
C29_FallbackNotCached ==
    [][GetAllProfiles =>
         /\ (lastCall'.queried /\ NoRows(lastCall'.answer)) =>
                /\ lastCall'.value = FALLBACK_PROFILES
                /\ cache' = cache
                /\ lastFetch' = lastFetch
         /\ cache' # FALLBACK_PROFILES
         /\ (lastCall.queried /\ NoRows(lastCall.answer) /\ ~LoadedWithin(clock)) =>
                lastCall'.queried]_vars

\* a call after a load has queried, got no rows and returned the fallback
\* table, with the loaded table still in the cache
C29_Witness ==
    /\ lastCall.queried
    /\ NoRows(lastCall.answer)
    /\ lastCall.value = FALLBACK_PROFILES
    /\ cache # {}
    /\ lastFetch = latestLoad /\ lastFetch > 0 /\ lastFetch < lastCall.now

====
